---- MODULE Spec2Model ----
(***************************************************************************)
(* Working-memory trainer: the progress state machine (update_progress),   *)
(* the JSON document store it runs on (load_json_file / save_json_file),   *)
(* the per-game history log (add_history_entry), the configuration         *)
(* generators and the answer evaluator of digit_span and spatial_pattern,  *)
(* and a session (start_game_session) with its aborts.                     *)
(*                                                                         *)
(* A document on disk is a record [st, doc]: st is "absent", "valid" (the  *)
(* file decodes to doc) or "corrupt" (json.load raises JSONDecodeError;    *)
(* doc then keeps what the document held before the write that damaged it, *)
(* which the program never reads).                                         *)
(* Times are whole seconds; avg_response_time is an exact fraction         *)
(* [num, den] in lowest terms.  The timestamp of a history entry is not    *)
(* modelled.                                                               *)
(***************************************************************************)
EXTENDS Integers, Sequences, FiniteSets, TLC

VARIABLES
    progressFile,   \* game -> the document <game>/<game>.json
    historyFile,    \* game -> the document <game>/<game>_history.json
    call,           \* the locals of the last update_progress call at its end
    played,         \* number of update_progress calls made in this run
    faults,         \* number of failed writes so far in this run
    pinned,         \* a pair of progress records driven by the same outcomes
    session,        \* start_game_session: its position and its locals
    WM_EXIT,        \* os.environ["WM_EXIT"] is set
    exiting,        \* exiting[0], set by the SIGINT handler
    challenge,      \* a generate_next_challenge_config call, or a digit-span round
    response        \* an answer being entered and graded: inputs, result

vars == <<progressFile, historyFile, call, played, faults, pinned,
          session, WM_EXIT, exiting, challenge, response>>

\* What the progress state machine on its own leaves alone.
sessionVars == <<session, WM_EXIT, exiting>>
pureVars == <<challenge, response>>

---------------------------------------------------------------------------
(* Bounds of the model *)

MaxRounds == 3
MaxFaults == 1
MaxEarlierSuccesses == 100
MaxEarlierFailures == 10
MaxEarlierRecovery == 9
MaxPinnedRounds == 16
MaxSurplus == 2

(* Program constants *)

LevelUpThreshold == 10
LevelDownThreshold == -5
MaxLevel == 10
MinLevel == 1

Games == {"digit_span", "spatial_pattern"}
ResponseTimes == {2, 5}
UserAnswers == {<<>>, <<1, 2, 3>>}

\* Earlier sessions of digit_span: <<a, b, c>> is a successes, then b
\* failures, then c successes, played from the fresh install.  The rounds of
\* this run start after one of these.
Earlier == { <<0, 0, 0>>, <<0, 4, 0>>, <<9, 0, 0>>, <<20, 4, 0>>, <<29, 0, 0>>,
             <<89, 0, 0>>, <<99, 0, 0>>, <<100, 0, 0>>, <<20, 10, 9>> }
EarlierResponseTime == 2

---------------------------------------------------------------------------
(* Arithmetic helpers *)

RECURSIVE Gcd(_, _)
Gcd(a, b) == IF b = 0 THEN a ELSE Gcd(b, a % b)

Fraction(n, d) == LET g == Gcd(n, d) IN [num |-> n \div g, den |-> d \div g]

Max(x, y) == IF x > y THEN x ELSE y

\* dict.get(key, default)
Get(dict, key, default) == IF key \in DOMAIN dict THEN dict[key] ELSE default

---------------------------------------------------------------------------
(* save_load.py: the document store *)

AbsentFile == [st |-> "absent", doc |-> <<>>]
CorruptFile(file) == [st |-> "corrupt", doc |-> file.doc]
ValidFile(data) == [st |-> "valid", doc |-> data]

\* How one `with open(path, 'w') as f: json.dump(data, f)` ends: "ok"; the
\* open (or the makedirs before it) raises and the file is untouched; or the
\* open has truncated the file and the dump, flush or fsync raises.
WriteOutcomes == {"ok", "unopened", "partial"}

write_file(file, data, w) ==
    CASE w = "ok" -> ValidFile(data)
      [] w = "unopened" -> file
      [] w = "partial" -> CorruptFile(file)

\* load_json_file(file_path, default) with default not None.  raised: the
\* call propagates an exception (a failed write inside the JSONDecodeError
\* handler is not caught by the sibling except clause).
load_json_file(file, default, w) ==
    IF file.st = "valid"
    THEN [file |-> file, value |-> file.doc, raised |-> FALSE]
    ELSE IF file.st = "absent"
    THEN [file |-> write_file(file, default, w), value |-> default, raised |-> FALSE]
    ELSE [file |-> write_file(file, default, w), value |-> default, raised |-> w # "ok"]

save_json_file(file, data, w) ==
    [file |-> write_file(file, data, w), ok |-> w = "ok"]

default_progress ==
    [level |-> 1, upgrade |-> 0, highest_level_reached |-> 1,
     total_challenges |-> 0, successful_challenges |-> 0,
     current_streak |-> 0, longest_streak |-> 0,
     avg_response_time |-> Fraction(0, 1)]

\* lines 184-196: the document of digit_span also holds the configuration
\* of its next challenge and the sequence last shown.  Times are hundredths
\* of a second; the instruction text is not modelled.
default_next_challenge ==
    [sequence_length |-> 3, display_time |-> 100, inter_digit_delay |-> 50,
     backward |-> FALSE, interference |-> FALSE, manipulation |-> "None"]

default_game_progress(game) ==
    IF game = "digit_span"
    THEN default_progress @@ [next_challenge |-> default_next_challenge,
                              current_sequence |-> <<>>]
    ELSE default_progress

load_game_progress(game, file, w) ==
    load_json_file(file, default_game_progress(game), w)

save_game_progress(file, progress, w) == save_json_file(file, progress, w)

load_game_history(file, w) == load_json_file(file, <<>>, w)

save_game_history(file, history, w) == save_json_file(file, history, w)

\* add_history_entry: load, append, save.  w1 is the outcome of the write the
\* load may make, w2 of the save.
add_history_entry(file, entry, w1, w2) ==
    LET l == load_game_history(file, w1)
        s == save_game_history(l.file, Append(l.value, entry), w2)
    IN  IF l.raised
        THEN [file |-> l.file, history |-> l.value, raised |-> TRUE, ok |-> FALSE]
        ELSE [file |-> s.file, history |-> l.value, raised |-> FALSE, ok |-> s.ok]

---------------------------------------------------------------------------
(* game_session.py: update_progress *)

\* update_stats with a failure that leaves the streak running
update_stats_keep_streak(gp, success) ==
    LET streak == IF success THEN gp.current_streak + 1 ELSE gp.current_streak
    IN  [gp EXCEPT
            !.total_challenges = @ + 1,
            !.successful_challenges = IF success THEN @ + 1 ELSE @,
            !.current_streak = streak,
            !.upgrade = IF success THEN @ + 1 ELSE @ - 1,
            !.longest_streak = IF streak > @ THEN streak ELSE @]

\* update_stats with the total counted in the failure branch only
update_stats_total_on_failure(gp, success) ==
    LET streak == IF success THEN gp.current_streak + 1 ELSE 0
    IN  [gp EXCEPT
            !.total_challenges = IF success THEN @ ELSE @ + 1,
            !.successful_challenges = IF success THEN @ + 1 ELSE @,
            !.current_streak = streak,
            !.upgrade = IF success THEN @ + 1 ELSE @ - 1,
            !.longest_streak = IF streak > @ THEN streak ELSE @]

\* lines 63-75: the counters and the longest streak
update_stats(gp, success) ==
    LET streak == IF success THEN gp.current_streak + 1 ELSE 0
    IN  [gp EXCEPT
            !.total_challenges = @ + 1,
            !.successful_challenges = IF success THEN @ + 1 ELSE @,
            !.current_streak = streak,
            !.upgrade = IF success THEN @ + 1 ELSE @ - 1,
            !.longest_streak = IF streak > @ THEN streak ELSE @]

\* update_response_time that takes the mean of the old mean and the new time
update_response_time_of_two(gp, response_time) ==
    LET old_avg == gp.avg_response_time
        old_total == gp.total_challenges - 1
    IN  [gp EXCEPT !.avg_response_time =
            IF old_total = 0
            THEN Fraction(response_time, 1)
            ELSE Fraction(old_avg.num + response_time * old_avg.den,
                          old_avg.den * 2)]

\* lines 77-83: the running mean, gp already counted
update_response_time(gp, response_time) ==
    LET old_avg == gp.avg_response_time
        old_total == gp.total_challenges - 1
    IN  [gp EXCEPT !.avg_response_time =
            IF old_total = 0
            THEN Fraction(response_time, 1)
            ELSE Fraction(old_avg.num * old_total + response_time * old_avg.den,
                          old_avg.den * gp.total_challenges)]

\* check_level without the ceiling test of line 87
check_level_no_ceiling(gp) ==
    IF gp.upgrade >= LevelUpThreshold
    THEN [gp EXCEPT
            !.level = @ + 1,
            !.upgrade = 0,
            !.highest_level_reached = IF gp.level + 1 > @ THEN gp.level + 1 ELSE @]
    ELSE IF gp.upgrade <= LevelDownThreshold /\ gp.level > MinLevel
    THEN [gp EXCEPT !.level = @ - 1, !.upgrade = 0]
    ELSE gp

\* check_level without the reset of line 89
check_level_keep_upgrade(gp) ==
    IF gp.upgrade >= LevelUpThreshold /\ gp.level < MaxLevel
    THEN [gp EXCEPT
            !.level = @ + 1,
            !.highest_level_reached = IF gp.level + 1 > @ THEN gp.level + 1 ELSE @]
    ELSE IF gp.upgrade <= LevelDownThreshold /\ gp.level > MinLevel
    THEN [gp EXCEPT !.level = @ - 1, !.upgrade = 0]
    ELSE gp

\* check_level whose level-down steps two levels where it can
check_level_down_two(gp) ==
    IF gp.upgrade >= LevelUpThreshold /\ gp.level < MaxLevel
    THEN [gp EXCEPT
            !.level = @ + 1,
            !.upgrade = 0,
            !.highest_level_reached = IF gp.level + 1 > @ THEN gp.level + 1 ELSE @]
    ELSE IF gp.upgrade <= LevelDownThreshold /\ gp.level > MinLevel
    THEN [gp EXCEPT !.level = IF @ > 2 THEN @ - 2 ELSE @ - 1, !.upgrade = 0]
    ELSE gp

\* check_level whose level-down also lowers highest_level_reached
check_level_lower_highest(gp) ==
    IF gp.upgrade >= LevelUpThreshold /\ gp.level < MaxLevel
    THEN [gp EXCEPT
            !.level = @ + 1,
            !.upgrade = 0,
            !.highest_level_reached = IF gp.level + 1 > @ THEN gp.level + 1 ELSE @]
    ELSE IF gp.upgrade <= LevelDownThreshold /\ gp.level > MinLevel
    THEN [gp EXCEPT !.level = @ - 1, !.upgrade = 0,
                    !.highest_level_reached = gp.level - 1]
    ELSE gp

\* check_level that resets the upgrade counter at a threshold also when the
\* level is pinned
check_level_reset_when_pinned(gp) ==
    IF gp.upgrade >= LevelUpThreshold
    THEN [gp EXCEPT
            !.level = IF @ < MaxLevel THEN @ + 1 ELSE @,
            !.upgrade = 0,
            !.highest_level_reached = IF gp.level < MaxLevel /\ gp.level + 1 > @
                                      THEN gp.level + 1 ELSE @]
    ELSE IF gp.upgrade <= LevelDownThreshold
    THEN [gp EXCEPT !.level = IF @ > MinLevel THEN @ - 1 ELSE @, !.upgrade = 0]
    ELSE gp

\* check_level with the level-down threshold taken as 0
check_level_down_at_zero(gp) ==
    IF gp.upgrade >= LevelUpThreshold /\ gp.level < MaxLevel
    THEN [gp EXCEPT
            !.level = @ + 1,
            !.upgrade = 0,
            !.highest_level_reached = IF gp.level + 1 > @ THEN gp.level + 1 ELSE @]
    ELSE IF gp.upgrade <= 0 /\ gp.level > MinLevel
    THEN [gp EXCEPT !.level = @ - 1, !.upgrade = 0]
    ELSE gp

\* check_level whose level-down waits for the counter to pass its threshold
check_level_down_below_threshold(gp) ==
    IF gp.upgrade >= LevelUpThreshold /\ gp.level < MaxLevel
    THEN [gp EXCEPT
            !.level = @ + 1,
            !.upgrade = 0,
            !.highest_level_reached = IF gp.level + 1 > @ THEN gp.level + 1 ELSE @]
    ELSE IF gp.upgrade < LevelDownThreshold /\ gp.level > MinLevel
    THEN [gp EXCEPT !.level = @ - 1, !.upgrade = 0]
    ELSE gp

\* check_level whose level-down leaves the counter one above its threshold
check_level_down_keeps_count(gp) ==
    IF gp.upgrade >= LevelUpThreshold /\ gp.level < MaxLevel
    THEN [gp EXCEPT
            !.level = @ + 1,
            !.upgrade = 0,
            !.highest_level_reached = IF gp.level + 1 > @ THEN gp.level + 1 ELSE @]
    ELSE IF gp.upgrade <= LevelDownThreshold /\ gp.level > MinLevel
    THEN [gp EXCEPT !.level = @ - 1, !.upgrade = LevelDownThreshold + 1]
    ELSE gp

\* lines 85-94: level up, else level down
check_level(gp) ==
    IF gp.upgrade >= LevelUpThreshold /\ gp.level < MaxLevel
    THEN [gp EXCEPT
            !.level = @ + 1,
            !.upgrade = 0,
            !.highest_level_reached = IF gp.level + 1 > @ THEN gp.level + 1 ELSE @]
    ELSE IF gp.upgrade <= LevelDownThreshold /\ gp.level > MinLevel
    THEN [gp EXCEPT !.level = @ - 1, !.upgrade = 0]
    ELSE gp

\* history_entry that logs every round as a success
history_entry_success_true(game, level_before, success, response_time, gp, user_answer) ==
    LET entry == [game |-> game, level |-> level_before, success |-> TRUE,
                  response_time |-> response_time,
                  upgrade_progress |-> gp.upgrade]
    IN  IF user_answer # <<>>
        THEN entry @@ [user_answer |-> user_answer]
        ELSE entry

\* lines 100-111: the history entry; user_answer only when truthy
history_entry(game, level_before, success, response_time, gp, user_answer) ==
    LET entry == [game |-> game, level |-> level_before, success |-> success,
                  response_time |-> response_time,
                  upgrade_progress |-> gp.upgrade]
    IN  IF user_answer # <<>>
        THEN entry @@ [user_answer |-> user_answer]
        ELSE entry

\* lines 63-94: the record update_progress saves, from the record it loaded
next_progress(gp, success, response_time) ==
    check_level(update_response_time(update_stats(gp, success), response_time))

\* level_before read after the level check
recorded_level_after(timed, checked) == checked.level

\* line 86: level_before is read before the level check of lines 87-94
recorded_level(timed, checked) == timed.level

NoCall == [outcome |-> "none"]

\* The write outcomes a call does not use are "ok", and the failed writes fit
\* the run's budget.
Failed(w) == IF w = "ok" THEN 0 ELSE 1

\* update_progress, lines 58-115, on the documents pfile and hfile, with the
\* outcomes of the writes it makes: w1 by load_game_progress, w2 by
\* save_game_progress, w3 and w4 by add_history_entry.  progress and history
\* are the documents it leaves, call its locals.
update_progress_run(game, pfile, hfile, success, response_time, user_answer, w1, w2, w3, w4) ==
    LET l == load_game_progress(game, pfile, w1)
        loaded == l.value
        counted == update_stats(loaded, success)
        timed == update_response_time(counted, response_time)
        level_before == recorded_level(timed, check_level(timed))
        game_progress == check_level(timed)
        s == save_game_progress(l.file, game_progress, w2)
        entry == history_entry(game, level_before, success, response_time,
                               game_progress, user_answer)
        h == add_history_entry(hfile, entry, w3, w4)
    IN  IF l.raised
        THEN [raised |-> TRUE, progress |-> l.file, history |-> hfile,
              call |-> [outcome |-> "load_raised", game |-> game, success |-> success]]
        ELSE [raised |-> FALSE, progress |-> s.file, history |-> h.file,
              call |-> [outcome |-> IF h.raised THEN "history_raised" ELSE "returned",
                        game |-> game, success |-> success,
                        loaded |-> loaded, counted |-> counted,
                        level_before |-> level_before,
                        game_progress |-> game_progress,
                        saved |-> s.ok,
                        entry |-> entry,
                        logged |-> h.ok]]

\* A call of update_progress on the documents of the game.
progress_call(game, success, response_time, user_answer, w1, w2, w3, w4) ==
    LET run == update_progress_run(game, progressFile[game], historyFile[game],
                                   success, response_time, user_answer,
                                   w1, w2, w3, w4)
    IN  /\ (progressFile[game].st = "valid" => w1 = "ok")
        /\ (historyFile[game].st = "valid" => w3 = "ok")
        /\ (run.raised => w2 = "ok" /\ w3 = "ok" /\ w4 = "ok")
        /\ faults + Failed(w1) + Failed(w2) + Failed(w3) + Failed(w4) <= MaxFaults
        /\ faults' = faults + Failed(w1) + Failed(w2) + Failed(w3) + Failed(w4)
        /\ progressFile' = [progressFile EXCEPT ![game] = run.progress]
        /\ historyFile' = [historyFile EXCEPT ![game] = run.history]
        /\ call' = run.call

\* The rounds digit_span has played so far, as <<a, b, c>>: a successes, then
\* b failures, then c successes.
EarlierPlayed ==
    IF progressFile["digit_span"].st = "valid"
    THEN LET gp == progressFile["digit_span"].doc
             failures == gp.total_challenges - gp.successful_challenges
         IN  IF failures = 0
             THEN <<gp.successful_challenges, 0, 0>>
             ELSE <<gp.successful_challenges - gp.current_streak, failures,
                    gp.current_streak>>
    ELSE <<0, 0, 0>>

\* A round of an earlier session: successes, then failures, then successes.
earlier_round(success) ==
    /\ played = 0
    /\ faults = 0
    /\ IF success
       THEN \/ EarlierPlayed[2] = 0 /\ EarlierPlayed[1] < MaxEarlierSuccesses
            \/ EarlierPlayed[2] > 0 /\ EarlierPlayed[3] < MaxEarlierRecovery
       ELSE EarlierPlayed[3] = 0 /\ EarlierPlayed[2] < MaxEarlierFailures
    /\ progress_call("digit_span", success, EarlierResponseTime, <<>>, "ok", "ok", "ok", "ok")
    /\ UNCHANGED <<played, pinned, sessionVars, pureVars>>

\* A round of this run.
update_progress(game, success, response_time, user_answer, w1, w2, w3, w4) ==
    /\ played < MaxRounds
    /\ played > 0 \/ EarlierPlayed \in Earlier
    /\ progress_call(game, success, response_time, user_answer, w1, w2, w3, w4)
    /\ played' = played + 1
    /\ UNCHANGED <<pinned, sessionVars, pureVars>>

\* game_session.py lines 263-269: a round reads the level before it starts
read_level(game, w) ==
    LET l == load_game_progress(game, progressFile[game], w)
    IN  /\ played < MaxRounds
        /\ progressFile[game].st # "valid"
        /\ faults + Failed(w) <= MaxFaults
        /\ faults' = faults + Failed(w)
        /\ progressFile' = [progressFile EXCEPT ![game] = l.file]
        /\ UNCHANGED <<historyFile, call, played, pinned, sessionVars, pureVars>>

---------------------------------------------------------------------------
(* digit_span.py: generate_next_challenge_config.  Times are hundredths of *)
(* a second.  coins holds the outcome of each random.choice([True, False]) *)
(* the call could make; a flip below its introduction level is not made.   *)

\* save_load.py lines 111-122: the meta-parameters of digit_span
DigitSpanMeta ==
    [backward_intro_level |-> 4, interference_intro_level |-> 7,
     selective_recall_intro_level |-> 8, ordering_intro_level |-> 9,
     base_display_time |-> 100, display_time_reduction_per_level |-> 10,
     base_delay_time |-> 50, delay_time_reduction_per_level |-> 5,
     min_digits_level_1 |-> 3, max_additional_digits_per_level |-> 1]

DigitSpanCoins ==
    [backward : BOOLEAN, interference_task : BOOLEAN,
     selective_recall : BOOLEAN, ordering : BOOLEAN]

\* the task flags where an ordering task clears backward only
digit_span_flags_keep_selective(level, meta, coins) ==
    LET c0 == [backward |-> FALSE, interference_task |-> FALSE,
               selective_recall |-> FALSE, ordering |-> FALSE]
        c1 == IF level >= meta.backward_intro_level
              THEN [c0 EXCEPT !.backward = coins.backward] ELSE c0
        c2 == IF level >= meta.interference_intro_level
              THEN [c1 EXCEPT !.interference_task = coins.interference_task] ELSE c1
        c3 == IF level >= meta.selective_recall_intro_level
              THEN [c2 EXCEPT !.selective_recall = coins.selective_recall,
                              !.backward = IF coins.selective_recall THEN FALSE ELSE @]
              ELSE c2
    IN  IF level >= meta.ordering_intro_level
        THEN [c3 EXCEPT !.ordering = coins.ordering,
                        !.backward = IF coins.ordering THEN FALSE ELSE @]
        ELSE c3

\* lines 212-248: the task flags, one flip after the other
digit_span_flags(level, meta, coins) ==
    LET c0 == [backward |-> FALSE, interference_task |-> FALSE,
               selective_recall |-> FALSE, ordering |-> FALSE]
        c1 == IF level >= meta.backward_intro_level
              THEN [c0 EXCEPT !.backward = coins.backward] ELSE c0
        c2 == IF level >= meta.interference_intro_level
              THEN [c1 EXCEPT !.interference_task = coins.interference_task] ELSE c1
        c3 == IF level >= meta.selective_recall_intro_level
              THEN [c2 EXCEPT !.selective_recall = coins.selective_recall,
                              !.backward = IF coins.selective_recall THEN FALSE ELSE @]
              ELSE c2
    IN  IF level >= meta.ordering_intro_level
        THEN [c3 EXCEPT !.ordering = coins.ordering,
                        !.backward = IF coins.ordering THEN FALSE ELSE @,
                        !.selective_recall = IF coins.ordering THEN FALSE ELSE @]
        ELSE c3

\* the timings without their floors
digit_span_times_no_floor(level, meta) ==
    [display_time |->
        meta.base_display_time - (level - 1) * meta.display_time_reduction_per_level,
     inter_digit_delay |->
        meta.base_delay_time - (level - 1) * meta.delay_time_reduction_per_level]

\* lines 226-228: the timings
digit_span_times(level, meta) ==
    [display_time |->
        Max(30, meta.base_display_time
                   - (level - 1) * meta.display_time_reduction_per_level),
     inter_digit_delay |->
        Max(10, meta.base_delay_time
                   - (level - 1) * meta.delay_time_reduction_per_level)]

\* lines 189-264
digit_span_generate_next_challenge_config(level, meta, coins) ==
    [sequence_length |-> meta.min_digits_level_1
                            + (level - 1) * meta.max_additional_digits_per_level]
    @@ digit_span_times(level, meta)
    @@ digit_span_flags(level, meta, coins)

---------------------------------------------------------------------------
(* spatial_pattern.py: generate_next_challenge_config *)

\* save_load.py lines 131-138: the meta-parameters of spatial_pattern
SpatialPatternMeta ==
    [grid_size_base |-> 3, max_grid_size |-> 7, min_cells_level_1 |-> 3,
     max_additional_cells_per_level |-> 2,
     display_time_base |-> 150, display_time_reduction_per_level |-> 10]

SpatialPatternCoins == [interference : BOOLEAN, use_multiple_highlights : BOOLEAN]

Min(x, y) == IF x < y THEN x ELSE y

\* the sizes with a grid that stays at its base size
spatial_pattern_sizes_fixed_grid(level, meta) ==
    LET grid_size == meta.grid_size_base
        min_cells == meta.min_cells_level_1
                        + (level - 1) * meta.max_additional_cells_per_level
        max_cells == Min(min_cells + meta.max_additional_cells_per_level,
                         grid_size * grid_size - 1)
    IN  [grid_size |-> grid_size, min_cells |-> min_cells, max_cells |-> max_cells]

\* lines 258-267: the grid size and the range random.randint draws the
\* pattern size from
spatial_pattern_sizes(level, meta) ==
    LET grid_size_increase_every_n ==
            Get(meta, "grid_size_increase_every_n_levels", 2)
        grid_size_increase ==
            Min((level - 1) \div grid_size_increase_every_n,
                meta.max_grid_size - meta.grid_size_base)
        grid_size == meta.grid_size_base + grid_size_increase
        min_cells == meta.min_cells_level_1
                        + (level - 1) * meta.max_additional_cells_per_level
        max_cells == Min(min_cells + meta.max_additional_cells_per_level,
                         grid_size * grid_size - 1)
    IN  [grid_size |-> grid_size, min_cells |-> min_cells, max_cells |-> max_cells]

\* lines 270-272
spatial_pattern_display_time(level, meta) ==
    Max(50, meta.display_time_base
               - (level - 1) * meta.display_time_reduction_per_level)

\* lines 227-296, for the pattern size random.randint returned
spatial_pattern_generate_next_challenge_config(level, meta, pattern_size, coins) ==
    [grid_size |-> spatial_pattern_sizes(level, meta).grid_size,
     pattern_size |-> pattern_size,
     display_time |-> spatial_pattern_display_time(level, meta),
     interference |->
        level >= Get(meta, "interference_intro_level", 7) /\ coins.interference,
     use_multiple_highlights |->
        level >= Get(meta, "multiple_highlights_intro_level", 5)
           /\ coins.use_multiple_highlights]

---------------------------------------------------------------------------
(* spatial_pattern.py: the pattern and the grading of the selected cells.  *)
(* A cell is <<row, col>>; Python orders such tuples by row, then column.  *)

CellLess(a, b) == a[1] < b[1] \/ (a[1] = b[1] /\ a[2] < b[2])

RECURSIVE InsertCell(_, _)
InsertCell(cell, sorted) ==
    IF sorted = <<>> \/ ~CellLess(Head(sorted), cell)
    THEN <<cell>> \o sorted
    ELSE <<Head(sorted)>> \o InsertCell(cell, Tail(sorted))

\* sorted(cells) of a list of cells
RECURSIVE SortedCells(_)
SortedCells(cells) ==
    IF cells = <<>> THEN <<>> ELSE InsertCell(Head(cells), SortedCells(Tail(cells)))

\* lines 313-319: the positions random.sample picked, sorted
RECURSIVE generate_pattern(_)
generate_pattern(sample) ==
    IF sample = {}
    THEN <<>>
    ELSE LET first == CHOOSE c \in sample : \A d \in sample : ~CellLess(d, c)
         IN  <<first>> \o generate_pattern(sample \ {first})

\* the grading that compares the cells in the order they were selected
grade_selected_cells_in_order(selected_cells, pattern) == selected_cells = pattern

\* line 565: success = sorted(selected_cells) == sorted(pattern)
grade_selected_cells(selected_cells, pattern) ==
    SortedCells(selected_cells) = SortedCells(pattern)

---------------------------------------------------------------------------
(* digit_span.py: the expected answer and the feedback on an answer *)

Reverse(seq) == [i \in 1..Len(seq) |-> seq[Len(seq) + 1 - i]]

RECURSIVE Insert(_, _)
Insert(d, sorted) ==
    IF sorted = <<>> \/ d <= Head(sorted)
    THEN <<d>> \o sorted
    ELSE <<Head(sorted)>> \o Insert(d, Tail(sorted))

\* sorted(seq)
RECURSIVE Sorted(_)
Sorted(seq) == IF seq = <<>> THEN <<>> ELSE Insert(Head(seq), Sorted(Tail(seq)))

IsOdd(d) == d % 2 = 1

\* get_expected_answer that looks at selective_recall before backward
get_expected_answer_selective_first(sequence, config) ==
    IF Get(config, "selective_recall", FALSE) THEN SelectSeq(sequence, IsOdd)
    ELSE IF Get(config, "backward", FALSE) THEN Reverse(sequence)
    ELSE IF Get(config, "ordering", FALSE) THEN Sorted(sequence)
    ELSE sequence

\* lines 551-567
get_expected_answer(sequence, config) ==
    IF Get(config, "backward", FALSE) THEN Reverse(sequence)
    ELSE IF Get(config, "selective_recall", FALSE) THEN SelectSeq(sequence, IsOdd)
    ELSE IF Get(config, "ordering", FALSE) THEN Sorted(sequence)
    ELSE sequence

\* validate_user_answer that reports a wrong order whatever the task
validate_user_answer_any_task(user_answer, expected, config) ==
    IF user_answer = expected
    THEN [text |-> "Correct!"]
    ELSE IF Len(user_answer) # Len(expected)
    THEN [text |-> "Incorrect length", expected |-> Len(expected),
          got |-> Len(user_answer)]
    ELSE LET correct_positions ==
                 Cardinality({i \in 1..Len(expected) : user_answer[i] = expected[i]})
         IN  IF Sorted(user_answer) = Sorted(expected)
             THEN [text |-> "All digits correct but in wrong order",
                   correct_positions |-> correct_positions,
                   expected |-> Len(expected)]
             ELSE [text |-> "Partially correct",
                   correct_positions |-> correct_positions,
                   expected |-> Len(expected)]

\* lines 580-598: the message, as its fixed text and the numbers in it
validate_user_answer(user_answer, expected, config) ==
    IF user_answer = expected
    THEN [text |-> "Correct!"]
    ELSE IF Len(user_answer) # Len(expected)
    THEN [text |-> "Incorrect length", expected |-> Len(expected),
          got |-> Len(user_answer)]
    ELSE LET correct_positions ==
                 Cardinality({i \in 1..Len(expected) : user_answer[i] = expected[i]})
         IN  IF Sorted(user_answer) = Sorted(expected)
                   /\ ~Get(config, "ordering", FALSE)
             THEN [text |-> "All digits correct but in wrong order",
                   correct_positions |-> correct_positions,
                   expected |-> Len(expected)]
             ELSE [text |-> "Partially correct",
                   correct_positions |-> correct_positions,
                   expected |-> Len(expected)]

\* generate_sequence that returns the digits as drawn
generate_sequence_as_drawn(config, digits, index, odd) == digits

\* lines 282-299.  digits holds the draws of random.randint(0, 9), one for
\* each position; index is the draw of random.randint(0, length - 1) and odd
\* the draw of random.choice([1, 3, 5, 7, 9]), both made only when
\* selective_recall is set and no digit drawn is odd.
generate_sequence(config, digits, index, odd) ==
    IF Get(config, "selective_recall", FALSE)
          /\ ~\E i \in 1..Len(digits) : IsOdd(digits[i])
    THEN [digits EXCEPT ![index + 1] = odd]
    ELSE digits

---------------------------------------------------------------------------
(* Specifications *)

NoPair == <<>>
NoSession == [pc |-> "menu"]
NoChallenge == [game |-> "none"]
NoResponse == [graded |-> FALSE]

\* The fresh install: no document exists.
Init ==
    /\ progressFile = [g \in Games |-> AbsentFile]
    /\ historyFile = [g \in Games |-> AbsentFile]
    /\ call = NoCall
    /\ played = 0
    /\ faults = 0
    /\ pinned = NoPair
    /\ session = NoSession
    /\ WM_EXIT = FALSE
    /\ exiting = FALSE
    /\ challenge = NoChallenge
    /\ response = NoResponse

\* Normal operation: every write succeeds.
Next ==
    \/ \E success \in BOOLEAN : earlier_round(success)
    \/ \E g \in Games, success \in BOOLEAN, rt \in ResponseTimes, ua \in UserAnswers :
          update_progress(g, success, rt, ua, "ok", "ok", "ok", "ok")
    \/ \E g \in Games : read_level(g, "ok")

Spec == Init /\ [][Next]_vars

\* Operation with failing writes, after the shorter earlier sessions.
FaultEarlier == { <<0, 0, 0>>, <<0, 4, 0>>, <<9, 0, 0>> }

fault_round(game, success, response_time, user_answer, w1, w2, w3, w4) ==
    /\ played > 0 \/ EarlierPlayed \in FaultEarlier
    /\ update_progress(game, success, response_time, user_answer, w1, w2, w3, w4)

\* The outcomes of a write: of one that is not made, "ok".
Writes(made) == IF made /\ faults < MaxFaults THEN WriteOutcomes ELSE {"ok"}

FaultNext ==
    \/ \E success \in BOOLEAN : earlier_round(success)
    \/ \E g \in Games :
          \E w1 \in Writes(progressFile[g].st # "valid"), w2 \in Writes(TRUE),
             w3 \in Writes(historyFile[g].st # "valid"), w4 \in Writes(TRUE) :
             \E success \in BOOLEAN, rt \in ResponseTimes, ua \in UserAnswers :
                fault_round(g, success, rt, ua, w1, w2, w3, w4)
    \/ \E g \in Games, w \in WriteOutcomes : read_level(g, w)

FaultSpec == Init /\ [][FaultNext]_vars

---------------------------------------------------------------------------
(* Two progress records of one game kind, pinned at level 10 (or at level  *)
(* 1) with different upgrade surpluses, then driven by the same outcomes.  *)
(* Each record is first played on its own from the default record, by      *)
(* successes only or by failures only, until the level is pinned and the   *)
(* upgrade is at or past the threshold.  rounds counts the common rounds,  *)
(* against the net outcomes against the pin (failures minus successes at   *)
(* level 10, successes minus failures at level 1) and peak its maximum.    *)

PastThreshold(gp) ==
    \/ gp.level = MaxLevel /\ gp.upgrade >= LevelUpThreshold
    \/ gp.level = MinLevel /\ gp.upgrade <= LevelDownThreshold

\* One more round of the record being pinned.
CanPin(gp, success) ==
    IF success
    THEN /\ gp.successful_challenges = gp.total_challenges
         /\ ~(gp.level = MaxLevel /\ gp.upgrade >= LevelUpThreshold + MaxSurplus)
    ELSE /\ gp.successful_challenges = 0
         /\ gp.upgrade > LevelDownThreshold - MaxSurplus

pin_round(success) ==
    /\ pinned # NoPair
    /\ \/ /\ pinned.phase = "pin_a"
          /\ CanPin(pinned.a, success)
          /\ pinned' = [pinned EXCEPT
                !.a = next_progress(@, success, EarlierResponseTime)]
       \/ /\ pinned.phase = "pin_b"
          /\ CanPin(pinned.b, success)
          /\ pinned' = [pinned EXCEPT
                !.b = next_progress(@, success, EarlierResponseTime)]
    /\ UNCHANGED <<progressFile, historyFile, call, played, faults,
                   sessionVars, pureVars>>

pin_done ==
    /\ pinned # NoPair
    /\ \/ /\ pinned.phase = "pin_a"
          /\ PastThreshold(pinned.a)
          /\ pinned' = [pinned EXCEPT !.phase = "pin_b"]
       \/ /\ pinned.phase = "pin_b"
          /\ PastThreshold(pinned.b)
          /\ pinned.b.level = pinned.a.level
          /\ pinned' = [pinned EXCEPT
                !.phase = "run",
                !.level = pinned.a.level,
                !.surplus_a = pinned.a.upgrade,
                !.surplus_b = pinned.b.upgrade]
    /\ UNCHANGED <<progressFile, historyFile, call, played, faults,
                   sessionVars, pureVars>>

\* The same round outcome applied to both records.
pinned_round(success, response_time) ==
    /\ pinned # NoPair
    /\ pinned.phase = "run"
    /\ pinned.rounds < MaxPinnedRounds
    /\ LET against == pinned.against +
                      (IF success = (pinned.level = MaxLevel) THEN -1 ELSE 1)
       IN  pinned' = [pinned EXCEPT
                !.a = next_progress(@, success, response_time),
                !.b = next_progress(@, success, response_time),
                !.rounds = @ + 1,
                !.against = against,
                !.peak = IF against > @ THEN against ELSE @]
    /\ UNCHANGED <<progressFile, historyFile, call, played, faults,
                   sessionVars, pureVars>>

PinnedInit ==
    /\ progressFile = [g \in Games |-> AbsentFile]
    /\ historyFile = [g \in Games |-> AbsentFile]
    /\ call = NoCall
    /\ played = 0
    /\ faults = 0
    /\ pinned = [phase |-> "pin_a", a |-> default_progress, b |-> default_progress,
                 level |-> 0, surplus_a |-> 0, surplus_b |-> 0,
                 rounds |-> 0, against |-> 0, peak |-> 0]
    /\ session = NoSession
    /\ WM_EXIT = FALSE
    /\ exiting = FALSE
    /\ challenge = NoChallenge
    /\ response = NoResponse

PinnedNext ==
    \/ \E success \in BOOLEAN : pin_round(success)
    \/ pin_done
    \/ \E success \in BOOLEAN : pinned_round(success, EarlierResponseTime)

PinnedSpec == PinnedInit /\ [][PinnedNext]_vars

---------------------------------------------------------------------------
(* The configuration generators on their own: a level and meta-parameters  *)
(* are given, each generation draws its random values.  The introduction   *)
(* levels of digit_span come in every order.                               *)

Levels == MinLevel..MaxLevel

IntroLevels == {4, 7, 8, 9}

DigitSpanMetas ==
    { [DigitSpanMeta EXCEPT !.backward_intro_level = t[1],
                            !.interference_intro_level = t[2],
                            !.selective_recall_intro_level = t[3],
                            !.ordering_intro_level = t[4]] :
        t \in [1..4 -> IntroLevels] }

GenInit ==
    /\ progressFile = [g \in Games |-> AbsentFile]
    /\ historyFile = [g \in Games |-> AbsentFile]
    /\ call = NoCall
    /\ played = 0
    /\ faults = 0
    /\ pinned = NoPair
    /\ session = NoSession
    /\ WM_EXIT = FALSE
    /\ exiting = FALSE
    /\ challenge \in
          { [game |-> "digit_span", level |-> l, meta |-> m, generated |-> FALSE] :
               l \in Levels, m \in DigitSpanMetas }
          \cup
          { [game |-> "spatial_pattern", level |-> l, meta |-> SpatialPatternMeta,
             generated |-> FALSE] : l \in Levels }
    /\ response = NoResponse

generate_digit_span(coins) ==
    /\ challenge.game = "digit_span"
    /\ challenge' =
          [game |-> "digit_span", level |-> challenge.level, meta |-> challenge.meta,
           generated |-> TRUE, raised |-> FALSE, coins |-> coins,
           config |-> digit_span_generate_next_challenge_config(
                          challenge.level, challenge.meta, coins)]
    /\ UNCHANGED <<progressFile, historyFile, call, played, faults, pinned,
                   sessionVars, response>>

\* random.randint(min_cells, max_cells) raises ValueError on an empty range.
generate_spatial_pattern(coins) ==
    /\ challenge.game = "spatial_pattern"
    /\ LET sizes == spatial_pattern_sizes(challenge.level, challenge.meta)
           made == [game |-> "spatial_pattern", level |-> challenge.level,
                    meta |-> challenge.meta, generated |-> TRUE, coins |-> coins]
       IN  IF sizes.min_cells > sizes.max_cells
           THEN challenge' = made @@ [raised |-> TRUE]
           ELSE \E pattern_size \in sizes.min_cells..sizes.max_cells :
                   challenge' = made @@
                      [raised |-> FALSE,
                       config |-> spatial_pattern_generate_next_challenge_config(
                                      challenge.level, challenge.meta,
                                      pattern_size, coins)]
    /\ UNCHANGED <<progressFile, historyFile, call, played, faults, pinned,
                   sessionVars, response>>

GenNext ==
    \/ \E coins \in DigitSpanCoins : generate_digit_span(coins)
    \/ \E coins \in SpatialPatternCoins : generate_spatial_pattern(coins)

GenSpec == GenInit /\ [][GenNext]_vars

---------------------------------------------------------------------------
(* The evaluator of digit_span on its own: a sequence shown under a        *)
(* configuration, and the answer the player validates with ENTER.          *)

MaxSequenceLength == 3

AnswerDigits == {1, 2, 3}

DigitSequences ==
    UNION { [1..n -> AnswerDigits] : n \in 1..MaxSequenceLength }

TaskFlags == [backward : BOOLEAN, selective_recall : BOOLEAN, ordering : BOOLEAN]

EvalInit ==
    /\ progressFile = [g \in Games |-> AbsentFile]
    /\ historyFile = [g \in Games |-> AbsentFile]
    /\ call = NoCall
    /\ played = 0
    /\ faults = 0
    /\ pinned = NoPair
    /\ session = NoSession
    /\ WM_EXIT = FALSE
    /\ exiting = FALSE
    /\ challenge = NoChallenge
    /\ response \in { [graded |-> FALSE, sequence |-> sequence, config |-> config] :
                        sequence \in DigitSequences, config \in TaskFlags }

\* get_user_response lines 416 and 505-516: ENTER on the digits typed
validate(user_answer) ==
    LET expected == get_expected_answer(response.sequence, response.config)
    IN  /\ response # NoResponse
        /\ response' =
              [graded |-> TRUE, sequence |-> response.sequence,
               config |-> response.config, expected |-> expected,
               user_answer |-> user_answer,
               success |-> user_answer = expected,
               validation_feedback |->
                   validate_user_answer(user_answer, expected, response.config)]
        /\ UNCHANGED <<progressFile, historyFile, call, played, faults, pinned,
                       sessionVars, challenge>>

EvalNext == \E user_answer \in DigitSequences \cup {<<>>} : validate(user_answer)

EvalSpec == EvalInit /\ [][EvalNext]_vars

---------------------------------------------------------------------------
(* game_session.py: start_game_session, one session of a run.  The earlier *)
(* sessions are whole rounds of digit_span played from the fresh install.  *)
(* session.pc is the position of the program:                              *)
(*   "menu"          no session started                                    *)
(*   "loop"          at the loop test of line 259                          *)
(*   "explain_load"  display_challenge_explanation loads the configuration *)
(*   "explain"       the explanation screen waits for a key                *)
(*   "play"          the game function is called                           *)
(*   "answer"        get_user_response waits for a key                     *)
(*   "played"        the game function has returned, line 337 is next      *)
(*   "save"          update_progress is about to save the record, line 97  *)
(*   "log"           update_progress is about to add the entry, line 113   *)
(*   "results"       handle_session_continuation waits for a key           *)
(*   "done"          start_game_session has returned                       *)
(*   "crashed"       an exception has left start_game_session              *)
(*   "main_menu"     the main loop shows the menu again                    *)
(*   "quit"          the main loop has ended                               *)
(*   "exited"        sys.exit has ended the program                        *)
(* The levels of a session stay below 4, where no task flag and no         *)
(* interference task is drawn.  invoked, answered, updated, extensions,    *)
(* failed_saves, aborted, error and key (the last key pressed) record what *)
(* the session did.                                                        *)

MaxQueue == 2
MaxSessionRounds == 5
SequenceDigit == 5

SessionEarlier == { <<0, 0, 0>>, <<9, 0, 0>>, <<20, 4, 0>> }

ChoiceTypes == {"game", "random"}

\* get_game_for_session whose loop makes one pick less
get_game_for_session_one_short(choice_type, choice_value, games_per_session, picks) ==
    IF choice_type = "game"
    THEN [i \in 1..games_per_session |-> choice_value]
    ELSE [i \in 1..(games_per_session - 1) |-> picks[i]]

\* main_menu.py lines 451-490: games_per_session copies of the chosen game,
\* or games_per_session picks of random.choice from the chosen category
get_game_for_session(choice_type, choice_value, games_per_session, picks) ==
    IF choice_type = "game"
    THEN [i \in 1..games_per_session |-> choice_value]
    ELSE [i \in 1..games_per_session |-> picks[i]]

\* The queues of a session.
SessionQueues == UNION { [1..n -> Games] : n \in 1..MaxQueue }

\* The configurations generate_next_challenge_config(level) of the game can
\* return under the meta-parameters of the settings document; of the pattern
\* sizes random.randint can draw, the smallest and the largest.
generated_configs(game, level) ==
    IF game = "digit_span"
    THEN { digit_span_generate_next_challenge_config(level, DigitSpanMeta, coins) :
              coins \in DigitSpanCoins }
    ELSE LET sizes == spatial_pattern_sizes(level, SpatialPatternMeta)
         IN  { spatial_pattern_generate_next_challenge_config(
                   level, SpatialPatternMeta, pattern_size, coins) :
                 pattern_size \in {sizes.min_cells, sizes.max_cells},
                 coins \in SpatialPatternCoins }

\* load_challenge_config: the persisted next_challenge if there is one, else
\* a configuration generated for the level.
challenge_configs(game, doc, level) ==
    IF "next_challenge" \in DOMAIN doc
    THEN {doc.next_challenge}
    ELSE generated_configs(game, level)

\* generate_sequence and generate_pattern: of the stimuli they can draw, the
\* sequence of one repeated digit and the first cells of the grid by rows.
generate_stimulus(game, config) ==
    IF game = "digit_span"
    THEN [i \in 1..config.sequence_length |-> SequenceDigit]
    ELSE [i \in 1..config.pattern_size |->
             <<(i - 1) \div config.grid_size, (i - 1) % config.grid_size>>]

\* update_next_challenge that starts from the default document
update_next_challenge_from_default(game, doc, next_config, stimulus) ==
    IF game = "digit_span"
    THEN [next_challenge |-> next_config, current_sequence |-> stimulus]
            @@ default_game_progress(game)
    ELSE [next_challenge |-> next_config, current_pattern |-> stimulus,
          current_highlights |-> <<>>] @@ default_game_progress(game)

\* update_next_challenge: the document with the next configuration and the
\* stimulus last shown.
update_next_challenge(game, doc, next_config, stimulus) ==
    IF game = "digit_span"
    THEN [next_challenge |-> next_config, current_sequence |-> stimulus] @@ doc
    ELSE [next_challenge |-> next_config, current_pattern |-> stimulus,
          current_highlights |-> <<>>] @@ doc

\* The default of load_progress in the module of the game: digit_span.py
\* lines 131-153, spatial_pattern.py lines 147-169.
game_default_progress(game) ==
    IF game = "digit_span"
    THEN default_progress @@
         [next_challenge |-> [sequence_length |-> 3, display_time |-> 100,
                              inter_digit_delay |-> 50, backward |-> FALSE,
                              interference_task |-> FALSE,
                              selective_recall |-> FALSE, ordering |-> FALSE]]
    ELSE default_progress @@
         [next_challenge |-> [grid_size |-> 3, pattern_size |-> 3,
                              display_time |-> 150, interference |-> FALSE,
                              use_multiple_highlights |-> FALSE],
          current_pattern |-> <<>>, current_highlights |-> <<>>]

load_progress(game, file, w) == load_json_file(file, game_default_progress(game), w)

\* What get_user_response returns.  ENTER: on the expected answer of
\* digit_span or on a selection of spatial_pattern, the right cells or none;
\* M and Ctrl-C: (False, 0, []).
AnswerKeys == {"ENTER", "ENTER_WRONG", "M", "CTRL_C"}

get_user_response(game, stimulus, config, key, response_time) ==
    CASE key = "ENTER" ->
            [success |-> TRUE, response_time |-> response_time,
             user_answer |-> IF game = "digit_span"
                             THEN get_expected_answer(stimulus, config)
                             ELSE stimulus]
      [] key = "ENTER_WRONG" ->
            [success |-> FALSE, response_time |-> response_time, user_answer |-> <<>>]
      [] OTHER ->
            [success |-> FALSE, response_time |-> 0, user_answer |-> <<>>]

\* lines 295, 337 and 421
exit_requested_by_key_only(flag, env) == env

exit_requested(flag, env) == flag \/ env

\* A triple of earlier rounds that lies on the way to a start of the session.
OnTheWay(p) ==
    \E e \in SessionEarlier :
        /\ p[3] = 0
        /\ \/ p[2] = 0 /\ p[1] <= e[1]
           \/ p[1] = e[1] /\ p[2] <= e[2]

\* A whole round of an earlier session of digit_span, lines 263-342: the
\* level is read, the game is played (ENTER on the expected answer, or M),
\* the next configuration is saved and update_progress runs.
earlier_play(success) ==
    LET game == "digit_span"
        played_so_far == EarlierPlayed
        l == load_game_progress(game, progressFile[game], "ok")
        level == l.value.level
    IN  /\ session.pc = "menu"
        /\ OnTheWay(IF success
                    THEN <<played_so_far[1] + 1, played_so_far[2], played_so_far[3]>>
                    ELSE <<played_so_far[1], played_so_far[2] + 1, played_so_far[3]>>)
        /\ success => played_so_far[2] = 0
        /\ \E config \in challenge_configs(game, l.value, level),
              next_config \in generated_configs(game, level) :
              LET stimulus == generate_stimulus(game, config)
                  r == get_user_response(game, stimulus, config,
                                         IF success THEN "ENTER" ELSE "M",
                                         EarlierResponseTime)
                  doc == update_next_challenge(game, l.value, next_config, stimulus)
                  run == update_progress_run(
                             game, save_json_file(l.file, doc, "ok").file,
                             historyFile[game],
                             r.success, r.response_time, r.user_answer,
                             "ok", "ok", "ok", "ok")
              IN  /\ progressFile' = [progressFile EXCEPT ![game] = run.progress]
                  /\ historyFile' = [historyFile EXCEPT ![game] = run.history]
        /\ UNCHANGED <<call, played, faults, pinned, sessionVars, pureVars>>

\* wrapper.py lines 159-168: a session starts on the queue of the menu
\* choice.  challenges_per_session is the value of the settings the queue
\* was built with.
start_game_session(choice_type, choice_value, games_per_session, picks) ==
    /\ session.pc = "menu"
    /\ EarlierPlayed \in SessionEarlier
    /\ session' = [pc |-> "loop",
                   games_queue |-> get_game_for_session(choice_type, choice_value,
                                                        games_per_session, picks),
                   choice_type |-> choice_type,
                   challenges_per_session |-> games_per_session,
                   extensions |-> 0, key |-> "none",
                   challenges_completed |-> 0, continue_session |-> TRUE,
                   current_game |-> "none", current_level |-> 0,
                   challenge_config |-> <<>>, stimulus |-> <<>>,
                   success |-> FALSE, response_time |-> 0, user_answer |-> <<>>,
                   game_progress |-> <<>>, entry |-> <<>>,
                   invoked |-> 0, answered |-> 0, updated |-> 0,
                   failed_saves |-> 0, aborted |-> "no", error |-> "none"]
    /\ UNCHANGED <<progressFile, historyFile, call, played, faults, pinned,
                   WM_EXIT, exiting, pureVars>>

\* lines 259-296: the loop test, the pop and the level of the round; then the
\* explanation screen if this is the first round and it is digit_span, else
\* the exit check of line 295.  w is the outcome of the write the load makes
\* on a file that is absent or undecodable; an exception of that write is
\* none of the three classes caught at line 266 and leaves
\* start_game_session.
loop_test(w) ==
    /\ session.pc = "loop"
    /\ IF session.games_queue # <<>> /\ session.continue_session
             /\ ~exiting /\ ~WM_EXIT
       THEN LET current_game == Head(session.games_queue)
                l == load_game_progress(current_game, progressFile[current_game], w)
                first_in_session == session.challenges_completed + 1 = 1
            IN  /\ progressFile[current_game].st = "valid" => w = "ok"
                /\ faults + Failed(w) <= MaxFaults
                /\ faults' = faults + Failed(w)
                /\ progressFile' = [progressFile EXCEPT ![current_game] = l.file]
                /\ session' = [session EXCEPT
                      !.games_queue = Tail(@),
                      !.challenges_completed = @ + 1,
                      !.current_game = current_game,
                      !.current_level = l.value.level,
                      !.error = IF l.raised THEN "persistence" ELSE @,
                      !.pc = IF l.raised THEN "crashed"
                             ELSE IF first_in_session /\ current_game = "digit_span"
                             THEN "explain_load"
                             ELSE IF exit_requested(exiting, WM_EXIT)
                             THEN "done" ELSE "play"]
       ELSE /\ w = "ok"
            /\ session' = [session EXCEPT !.pc = "done"]
            /\ UNCHANGED <<progressFile, faults>>
    /\ UNCHANGED <<historyFile, call, played, pinned,
                   WM_EXIT, exiting, pureVars>>

\* digit_span.py lines 673-677: the explanation screen loads the
\* configuration it describes; the bare except of line 676 catches what the
\* load raises.
explain_load(w) ==
    LET l == load_progress("digit_span", progressFile["digit_span"], w)
    IN  /\ session.pc = "explain_load"
        /\ progressFile["digit_span"].st = "valid" => w = "ok"
        /\ faults + Failed(w) <= MaxFaults
        /\ faults' = faults + Failed(w)
        /\ progressFile' = [progressFile EXCEPT !["digit_span"] = l.file]
        /\ session' = [session EXCEPT !.pc = "explain"]
        /\ UNCHANGED <<historyFile, call, played, pinned,
                       WM_EXIT, exiting, pureVars>>

\* SIGINT while that load runs: the handler sets exiting[0] and calls
\* sys.exit, and the bare except of line 676 catches the SystemExit.
signal_in_explain_load ==
    /\ session.pc = "explain_load"
    /\ exiting' = TRUE
    /\ session' = [session EXCEPT !.pc = "explain", !.aborted = "signal"]
    /\ UNCHANGED <<progressFile, historyFile, call, played, faults, pinned,
                   WM_EXIT, pureVars>>

ExplanationKeys == {"ENTER", "M", "Q"}

\* digit_span.py lines 771-784 and game_session.py lines 280-296
explanation_key(key) ==
    /\ session.pc = "explain"
    /\ WM_EXIT' = (WM_EXIT \/ key = "Q")
    /\ session' = [session EXCEPT
          !.continue_session = IF WM_EXIT' \/ key = "ENTER" THEN @ ELSE FALSE,
          !.aborted = IF key = "Q" /\ @ = "no" THEN "explain" ELSE @,
          !.key = key,
          !.pc = IF WM_EXIT' THEN "done"
                 ELSE IF key # "ENTER" THEN "loop"
                 ELSE IF exit_requested(exiting, WM_EXIT') THEN "done"
                 ELSE "play"]
    /\ UNCHANGED <<progressFile, historyFile, call, played, faults, pinned,
                   exiting, pureVars>>

\* play_digit_span lines 74-87, play_spatial_pattern alike: the
\* configuration of the round (load_challenge_config), its stimulus, the
\* presentation.  A load that raises leaves the game function and is caught
\* at lines 303-311 of game_session.py.
play(w) ==
    LET game == session.current_game
        l == load_progress(game, progressFile[game], w)
    IN  /\ session.pc = "play"
        /\ game # "n_back"
        /\ progressFile[game].st = "valid" => w = "ok"
        /\ faults + Failed(w) <= MaxFaults
        /\ faults' = faults + Failed(w)
        /\ progressFile' = [progressFile EXCEPT ![game] = l.file]
        /\ IF l.raised
           THEN session' = [session EXCEPT
                   !.continue_session = FALSE,
                   !.error = "persistence",
                   !.pc = "loop"]
           ELSE \E config \in challenge_configs(game, l.value, session.current_level) :
                   session' = [session EXCEPT
                       !.challenge_config = config,
                       !.stimulus = generate_stimulus(game, config),
                       !.invoked = @ + 1,
                       !.pc = "answer"]
        /\ UNCHANGED <<historyFile, call, played, pinned,
                       WM_EXIT, exiting, pureVars>>

\* get_user_response until it returns, then lines 100-105 of the game
\* function: the next configuration is generated for the level of the round
\* and saved with the stimulus (update_next_challenge: load_progress with
\* the write outcome w1, save_json_file with w2, its result unread).
\* digit_span returns on ENTER only when the answer is the expected one:
\* ENTER on another answer shows the validation feedback and the entry goes
\* on (digit_span.py lines 505-523).
answer_key(key, response_time, w1, w2) ==
    LET game == session.current_game
        r == get_user_response(game, session.stimulus, session.challenge_config,
                               key, response_time)
        l == load_progress(game, progressFile[game], w1)
        feedback == game = "digit_span" /\ key = "ENTER_WRONG"
    IN  /\ session.pc = "answer"
        /\ game # "n_back"
        /\ feedback \/ progressFile[game].st = "valid" => w1 = "ok"
        /\ feedback \/ l.raised => w2 = "ok"
        /\ faults + Failed(w1) + Failed(w2) <= MaxFaults
        /\ faults' = faults + Failed(w1) + Failed(w2)
        /\ WM_EXIT' = (WM_EXIT \/ key = "CTRL_C")
        /\ IF feedback
           THEN /\ session' = [session EXCEPT !.key = key]
                /\ UNCHANGED progressFile
           ELSE IF l.raised
           THEN /\ progressFile' = [progressFile EXCEPT ![game] = l.file]
                /\ session' = [session EXCEPT
                      !.continue_session = FALSE,
                      !.error = "persistence",
                      !.answered = @ + 1,
                      !.aborted = IF key = "CTRL_C" /\ @ = "no" THEN "answer" ELSE @,
                      !.key = key,
                      !.pc = "loop"]
           ELSE /\ \E next_config \in generated_configs(game, session.current_level) :
                      progressFile' = [progressFile EXCEPT ![game] =
                          save_json_file(l.file,
                                         update_next_challenge(game, l.value, next_config,
                                                               session.stimulus),
                                         w2).file]
                /\ session' = [session EXCEPT
                      !.success = r.success,
                      !.response_time = r.response_time,
                      !.user_answer = r.user_answer,
                      !.answered = @ + 1,
                      !.failed_saves = @ + Failed(w2),
                      !.aborted = IF key = "CTRL_C" /\ @ = "no" THEN "answer" ELSE @,
                      !.key = key,
                      !.pc = "played"]
        /\ UNCHANGED <<historyFile, call, played, pinned, exiting, pureVars>>

\* lines 303-311: the game function raised an exception of its own.
game_error ==
    /\ session.pc \in {"play", "answer"}
    /\ session' = [session EXCEPT !.continue_session = FALSE,
                                  !.error = "game", !.pc = "loop"]
    /\ UNCHANGED <<progressFile, historyFile, call, played, faults, pinned,
                   WM_EXIT, exiting, pureVars>>

\* line 337, then update_progress lines 60-94 and 100-111: the record to
\* save and the entry to log.  A load that raises, or a loaded document
\* without 'upgrade' (KeyError at line 68 or 71), leaves update_progress and
\* is caught at lines 342-351.
check_exit(w) ==
    /\ session.pc = "played"
    /\ IF exit_requested(exiting, WM_EXIT)
       THEN /\ w = "ok"
            /\ session' = [session EXCEPT !.pc = "done"]
            /\ UNCHANGED <<progressFile, faults>>
       ELSE LET game == session.current_game
                l == load_game_progress(game, progressFile[game], w)
                timed == update_response_time(update_stats(l.value, session.success),
                                              session.response_time)
                game_progress == check_level(timed)
                level_before == recorded_level(timed, game_progress)
            IN  /\ progressFile[game].st = "valid" => w = "ok"
                /\ faults + Failed(w) <= MaxFaults
                /\ faults' = faults + Failed(w)
                /\ progressFile' = [progressFile EXCEPT ![game] = l.file]
                /\ IF l.raised \/ "upgrade" \notin DOMAIN l.value
                   THEN session' = [session EXCEPT
                           !.continue_session = FALSE,
                           !.error = "persistence",
                           !.pc = "loop"]
                   ELSE session' = [session EXCEPT
                           !.game_progress = game_progress,
                           !.entry = history_entry(game, level_before, session.success,
                                                   session.response_time, game_progress,
                                                   session.user_answer),
                           !.pc = "save"]
    /\ UNCHANGED <<historyFile, call, played, pinned,
                   WM_EXIT, exiting, pureVars>>

\* update_progress that passes a failed save on to the handler of line 342
save_progress_raising(w) ==
    /\ session.pc = "save"
    /\ faults + Failed(w) <= MaxFaults
    /\ faults' = faults + Failed(w)
    /\ progressFile' = [progressFile EXCEPT ![session.current_game] =
          save_game_progress(@, session.game_progress, w).file]
    /\ session' = [session EXCEPT
          !.failed_saves = @ + Failed(w),
          !.continue_session = IF w = "ok" THEN @ ELSE FALSE,
          !.pc = IF w = "ok" THEN "log" ELSE "loop"]
    /\ UNCHANGED <<historyFile, call, played, pinned,
                   WM_EXIT, exiting, pureVars>>

\* update_progress line 97; the result of the save is not read
save_progress(w) ==
    /\ session.pc = "save"
    /\ faults + Failed(w) <= MaxFaults
    /\ faults' = faults + Failed(w)
    /\ progressFile' = [progressFile EXCEPT ![session.current_game] =
          save_game_progress(@, session.game_progress, w).file]
    /\ session' = [session EXCEPT !.failed_saves = @ + Failed(w), !.pc = "log"]
    /\ UNCHANGED <<historyFile, call, played, pinned,
                   WM_EXIT, exiting, pureVars>>

\* update_progress line 113 and its return, then lines 353-365: with
\* digit_span next in the queue the results screen loads its progress
\* document for the lines about the next challenge (digit_span.py 602-633,
\* inside try / except Exception).  w1 and w2 are the writes of
\* add_history_entry, w3 the write of that load.  add_history_entry raising
\* leaves update_progress and is caught at lines 342-351.
log_entry(w1, w2, w3) ==
    LET game == session.current_game
        h == add_history_entry(historyFile[game], session.entry, w1, w2)
        info == session.games_queue # <<>> /\ Head(session.games_queue) = "digit_span"
        l == load_progress("digit_span", progressFile["digit_span"], w3)
    IN  /\ session.pc = "log"
        /\ historyFile[game].st = "valid" => w1 = "ok"
        /\ h.raised => w2 = "ok" /\ w3 = "ok"
        /\ (~info \/ progressFile["digit_span"].st = "valid") => w3 = "ok"
        /\ faults + Failed(w1) + Failed(w2) + Failed(w3) <= MaxFaults
        /\ faults' = faults + Failed(w1) + Failed(w2) + Failed(w3)
        /\ historyFile' = [historyFile EXCEPT ![game] = h.file]
        /\ IF h.raised
           THEN /\ session' = [session EXCEPT
                      !.continue_session = FALSE,
                      !.error = "persistence",
                      !.pc = "loop"]
                /\ UNCHANGED progressFile
           ELSE /\ progressFile' = IF info
                                   THEN [progressFile EXCEPT !["digit_span"] = l.file]
                                   ELSE progressFile
                /\ session' = [session EXCEPT
                      !.updated = @ + 1,
                      !.failed_saves = @ + Failed(w2),
                      !.pc = "results"]
        /\ UNCHANGED <<call, played, pinned, WM_EXIT, exiting, pureVars>>

ContinuationKeys == {"Y", "N", "M", "P", "Q"}

\* handle_session_continuation that goes on after the progress view
handle_session_continuation_after_progress(games_queue, current_game, key) ==
    [continue_session |-> IF games_queue = <<>>
                          THEN key \in {"Y", "P"}
                          ELSE key \notin {"M", "Q"},
     games_queue |-> IF games_queue = <<>> /\ key = "Y"
                     THEN games_queue \o [i \in 1..4 |-> current_game]
                     ELSE games_queue,
     exit |-> key = "Q"]

\* game_session.py lines 117-230: what the key pressed on the results screen
\* does.  With an empty queue Y adds four challenges of the current game
\* (session_type is always "single") and N, M, P and Q end the session; with
\* more games queued any key but M and Q goes on.  Q (or Ctrl-C) sets
\* WM_EXIT.
handle_session_continuation(games_queue, current_game, key) ==
    [continue_session |-> IF games_queue = <<>>
                          THEN key = "Y"
                          ELSE key \notin {"M", "Q"},
     games_queue |-> IF games_queue = <<>> /\ key = "Y"
                     THEN games_queue \o [i \in 1..4 |-> current_game]
                     ELSE games_queue,
     exit |-> key = "Q"]

\* The games of GAMES that have a progress document here, in its order.
ProgressViewGames == <<"digit_span", "spatial_pattern">>

\* One pass of load_game_progress over the games, with the write outcomes
\* ws; it stops at the load that raises.
RECURSIVE load_all_progress(_, _, _)
load_all_progress(files, games, ws) ==
    IF games = <<>>
    THEN [files |-> files, raised |-> FALSE]
    ELSE LET game == Head(games)
             l == load_game_progress(game, files[game], Head(ws))
             loaded == [files EXCEPT ![game] = l.file]
         IN  IF l.raised
             THEN [files |-> loaded, raised |-> TRUE]
             ELSE load_all_progress(loaded, Tail(games), Tail(ws))

\* progress.py: show_progress.  create_visualization loads every progress
\* document inside try / except Exception (lines 139-144, 55-56), then the
\* statistics load them again (lines 152-153), where an exception leaves
\* show_progress.
show_progress(files, ws) ==
    LET n == Len(ProgressViewGames)
        first == load_all_progress(files, ProgressViewGames, SubSeq(ws, 1, n))
    IN  load_all_progress(first.files, ProgressViewGames, SubSeq(ws, n + 1, 2 * n))

\* The writes show_progress makes on files: those of ws that are not "ok"
\* are writes of loads that are reached and find no valid document.
RECURSIVE WritesMade(_, _, _)
WritesMade(files, games, ws) ==
    IF games = <<>>
    THEN TRUE
    ELSE LET game == Head(games)
             l == load_game_progress(game, files[game], Head(ws))
         IN  /\ files[game].st = "valid" => Head(ws) = "ok"
             /\ IF l.raised
                THEN \A i \in 2..Len(ws) : ws[i] = "ok"
                ELSE WritesMade([files EXCEPT ![game] = l.file], Tail(games), Tail(ws))

NoWrites == [i \in 1..(2 * Len(ProgressViewGames)) |-> "ok"]

RECURSIVE FailedWrites(_)
FailedWrites(ws) == IF ws = <<>> THEN 0 ELSE Failed(Head(ws)) + FailedWrites(Tail(ws))

\* lines 415-424: the results screen, then the exit check; line 423 pops the
\* WM_EXIT the key has set.  P on an empty queue shows the progress view
\* (lines 208-212) with the write outcomes ws; an exception of the view is
\* not caught in start_game_session.
continuation_key(key, ws) ==
    LET c == handle_session_continuation(session.games_queue,
                                         session.current_game, key)
        extend == Len(c.games_queue) > Len(session.games_queue)
        viewed == session.games_queue = <<>> /\ key = "P"
        n == Len(ProgressViewGames)
        first == load_all_progress(progressFile, ProgressViewGames, SubSeq(ws, 1, n))
        view == show_progress(progressFile, ws)
    IN  /\ session.pc = "results"
        /\ extend => session.challenges_completed + 4 <= MaxSessionRounds
        /\ IF viewed
           THEN /\ WritesMade(progressFile, ProgressViewGames, SubSeq(ws, 1, n))
                /\ WritesMade(first.files, ProgressViewGames, SubSeq(ws, n + 1, 2 * n))
           ELSE ws = NoWrites
        /\ faults + FailedWrites(ws) <= MaxFaults
        /\ faults' = faults + FailedWrites(ws)
        /\ progressFile' = IF viewed THEN view.files ELSE progressFile
        /\ WM_EXIT' = FALSE
        /\ session' = [session EXCEPT
              !.games_queue = c.games_queue,
              !.continue_session = c.continue_session,
              !.extensions = IF extend THEN @ + 1 ELSE @,
              !.aborted = IF c.exit /\ @ = "no" THEN "results" ELSE @,
              !.error = IF viewed /\ view.raised THEN "persistence" ELSE @,
              !.key = key,
              !.pc = IF viewed /\ view.raised THEN "crashed"
                     ELSE IF exit_requested(exiting, WM_EXIT \/ c.exit)
                     THEN "done" ELSE "loop"]
        /\ UNCHANGED <<historyFile, call, played, pinned, exiting, pureVars>>

\* The positions at which the program runs or waits inside the session.
Running == {"loop", "explain", "play", "answer", "played", "save", "log", "results"}

\* wrapper.py lines 102-112: SIGINT arrives, the handler sets exiting[0] and
\* sys.exit ends the program where it stands.
signal_handler ==
    /\ session.pc \in Running
    /\ exiting' = TRUE
    /\ session' = [session EXCEPT !.pc = "exited", !.aborted = "signal"]
    /\ UNCHANGED <<progressFile, historyFile, call, played, faults, pinned,
                   WM_EXIT, pureVars>>

\* SIGINT arrives inside a write of update_progress: the file is opened and
\* truncated, the dump does not complete.
signal_in_write ==
    /\ session.pc \in {"save", "log"}
    /\ exiting' = TRUE
    /\ IF session.pc = "save"
       THEN /\ progressFile' = [progressFile EXCEPT ![session.current_game] =
                  write_file(@, session.game_progress, "partial")]
            /\ UNCHANGED historyFile
       ELSE /\ historyFile' = [historyFile EXCEPT ![session.current_game] =
                  write_file(@, <<>>, "partial")]
            /\ UNCHANGED progressFile
    /\ session' = [session EXCEPT !.pc = "exited", !.aborted = "signal"]
    /\ UNCHANGED <<call, played, faults, pinned, WM_EXIT, pureVars>>

\* wrapper.py lines 172-176: start_game_session has returned to the main
\* loop, which breaks when an exit is requested and else shows the menu
\* again.
main_after_session ==
    /\ session.pc = "done"
    /\ WM_EXIT' = FALSE
    /\ session' = [session EXCEPT
          !.pc = IF exit_requested(exiting, WM_EXIT) THEN "quit" ELSE "main_menu"]
    /\ UNCHANGED <<progressFile, historyFile, call, played, faults, pinned,
                   exiting, pureVars>>

SessionNext ==
    \/ \E success \in BOOLEAN : earlier_play(success)
    \/ \E choice_type \in ChoiceTypes, choice_value \in Games, picks \in SessionQueues :
          start_game_session(choice_type, choice_value, Len(picks), picks)
    \/ loop_test("ok")
    \/ explain_load("ok")
    \/ signal_in_explain_load
    \/ \E key \in ExplanationKeys : explanation_key(key)
    \/ play("ok")
    \/ \E key \in AnswerKeys : answer_key(key, EarlierResponseTime, "ok", "ok")
    \/ game_error
    \/ check_exit("ok")
    \/ save_progress("ok")
    \/ log_entry("ok", "ok", "ok")
    \/ \E key \in ContinuationKeys : continuation_key(key, NoWrites)
    \/ main_after_session
    \/ signal_handler
    \/ signal_in_write

SessionSpec == Init /\ [][SessionNext]_vars

---------------------------------------------------------------------------
(* A session on progress documents left by earlier runs, with writes that  *)
(* fail.  A progress document is absent, the default, undecodable (an      *)
(* interrupted write) or decodable without its 'upgrade' field; at most    *)
(* MaxFaults writes fail.                                                  *)

WithoutField(doc, field) == [k \in DOMAIN doc \ {field} |-> doc[k]]

ProgressFiles(game) ==
    { AbsentFile,
      ValidFile(default_game_progress(game)),
      CorruptFile(ValidFile(default_game_progress(game))),
      ValidFile(WithoutField(default_game_progress(game), "upgrade")) }

SessionFaultInit ==
    /\ progressFile \in { f \in [Games -> UNION { ProgressFiles(g) : g \in Games }] :
                              \A g \in Games : f[g] \in ProgressFiles(g) }
    /\ historyFile = [g \in Games |-> AbsentFile]
    /\ call = NoCall
    /\ played = 0
    /\ faults = 0
    /\ pinned = NoPair
    /\ session = NoSession
    /\ WM_EXIT = FALSE
    /\ exiting = FALSE
    /\ challenge = NoChallenge
    /\ response = NoResponse

\* The write outcomes of the progress view
ViewWrites == [1..(2 * Len(ProgressViewGames)) -> WriteOutcomes]

\* The sessions are those of one game chosen in the menu, MaxQueue
\* challenges long; no signal arrives.
SessionFaultNext ==
    \/ \E choice_value \in Games, picks \in [1..MaxQueue -> Games] :
          start_game_session("game", choice_value, MaxQueue, picks)
    \/ \E w \in WriteOutcomes : loop_test(w)
    \/ \E w \in WriteOutcomes : explain_load(w)
    \/ \E key \in ExplanationKeys : explanation_key(key)
    \/ \E w \in WriteOutcomes : play(w)
    \/ \E key \in AnswerKeys, w1 \in WriteOutcomes, w2 \in WriteOutcomes :
          answer_key(key, EarlierResponseTime, w1, w2)
    \/ game_error
    \/ \E w \in WriteOutcomes : check_exit(w)
    \/ \E w \in WriteOutcomes : save_progress(w)
    \/ \E w1 \in WriteOutcomes, w2 \in WriteOutcomes, w3 \in WriteOutcomes :
          log_entry(w1, w2, w3)
    \/ /\ session.pc = "results"
       /\ \E key \in ContinuationKeys, ws \in ViewWrites : continuation_key(key, ws)

SessionFaultSpec == SessionFaultInit /\ [][SessionFaultNext]_vars

---------------------------------------------------------------------------
(* digit_span.py: play_digit_span, one round on its own, at any level.     *)
(* The settings give sequences of 1 to MaxSequenceLength digits at every   *)
(* level.  challenge.document holds the two fields of the progress         *)
(* document that update_next_challenge writes; before the round they are   *)
(* the configuration the round before has saved and no sequence.           *)

Digits == 0..9

OddDigits == {1, 3, 5, 7, 9}

RoundMetas ==
    { [DigitSpanMeta EXCEPT !.min_digits_level_1 = n,
                            !.max_additional_digits_per_level = 0] :
        n \in 1..MaxSequenceLength }

RoundInit ==
    /\ progressFile = [g \in Games |-> AbsentFile]
    /\ historyFile = [g \in Games |-> AbsentFile]
    /\ call = NoCall
    /\ played = 0
    /\ faults = 0
    /\ pinned = NoPair
    /\ session = NoSession
    /\ WM_EXIT = FALSE
    /\ exiting = FALSE
    /\ challenge \in
          { [game |-> "digit_span", pc |-> "config", level |-> l, meta |-> m,
             config |-> digit_span_generate_next_challenge_config(l, m, coins),
             document |->
                [next_challenge |->
                    digit_span_generate_next_challenge_config(l, m, coins),
                 current_sequence |-> <<>>]] :
               l \in Levels, m \in RoundMetas, coins \in DigitSpanCoins }
    /\ response = NoResponse

\* lines 74-87: the configuration is loaded, the sequence generated and
\* shown; expected is what get_user_response compares the answer with.  The
\* draws of the replacement are made only when it is.
present_sequence ==
    /\ challenge.game = "digit_span"
    /\ challenge.pc = "config"
    /\ \E digits \in [1..challenge.config.sequence_length -> Digits] :
          LET replace == challenge.config.selective_recall
                            /\ \A i \in DOMAIN digits : digits[i] % 2 = 0
          IN  \E index \in IF replace THEN 0..(Len(digits) - 1) ELSE {0},
                 odd \in IF replace THEN OddDigits ELSE {1} :
                 LET sequence == generate_sequence(challenge.config, digits, index, odd)
                 IN  challenge' =
                        [pc |-> "shown", drawn |-> digits, sequence |-> sequence,
                         expected |-> get_expected_answer(sequence, challenge.config)]
                        @@ challenge
    /\ UNCHANGED <<progressFile, historyFile, call, played, faults, pinned,
                   sessionVars, response>>

\* lines 100-102: the next configuration is generated for the level of the
\* round and saved with the sequence shown.
save_next_challenge(coins) ==
    /\ challenge.game = "digit_span"
    /\ challenge.pc = "shown"
    /\ challenge' =
          [challenge EXCEPT
              !.pc = "saved",
              !.document = update_next_challenge(
                  "digit_span", @,
                  digit_span_generate_next_challenge_config(
                      challenge.level, challenge.meta, coins),
                  challenge.sequence)]
    /\ UNCHANGED <<progressFile, historyFile, call, played, faults, pinned,
                   sessionVars, response>>

RoundNext ==
    \/ present_sequence
    \/ \E coins \in DigitSpanCoins : save_next_challenge(coins)

RoundSpec == RoundInit /\ [][RoundNext]_vars

---------------------------------------------------------------------------
(* spatial_pattern.py: get_user_response on its own, under the             *)
(* configuration of level 1 with the smallest pattern.  response holds the *)
(* pattern shown, the cursor and the cells selected so far, in the order   *)
(* of their selection.                                                     *)

GridConfig ==
    spatial_pattern_generate_next_challenge_config(
        MinLevel, SpatialPatternMeta,
        spatial_pattern_sizes(MinLevel, SpatialPatternMeta).min_cells,
        [interference |-> FALSE, use_multiple_highlights |-> FALSE])

GridCells(config) == (0..(config.grid_size - 1)) \X (0..(config.grid_size - 1))

GridInit ==
    /\ progressFile = [g \in Games |-> AbsentFile]
    /\ historyFile = [g \in Games |-> AbsentFile]
    /\ call = NoCall
    /\ played = 0
    /\ faults = 0
    /\ pinned = NoPair
    /\ session = NoSession
    /\ WM_EXIT = FALSE
    /\ exiting = FALSE
    /\ challenge = NoChallenge
    /\ response \in
          { [graded |-> FALSE, game |-> "spatial_pattern", config |-> GridConfig,
             pattern |-> generate_pattern(sample),
             cursor_pos |-> <<0, 0>>, selected_cells |-> <<>>] :
               sample \in { S \in SUBSET GridCells(GridConfig) :
                               Cardinality(S) = GridConfig.pattern_size } }

Answering == response # NoResponse /\ ~response.graded /\ response.game = "spatial_pattern"

MoveKeys == {"UP", "DOWN", "LEFT", "RIGHT"}

\* lines 576-583: the arrow keys and hjkl, inside the grid
move_cursor(key) ==
    LET row == response.cursor_pos[1]
        col == response.cursor_pos[2]
        last == response.config.grid_size - 1
    IN  /\ Answering
        /\ \/ key = "UP" /\ row > 0
              /\ response' = [response EXCEPT !.cursor_pos = <<row - 1, col>>]
           \/ key = "DOWN" /\ row < last
              /\ response' = [response EXCEPT !.cursor_pos = <<row + 1, col>>]
           \/ key = "LEFT" /\ col > 0
              /\ response' = [response EXCEPT !.cursor_pos = <<row, col - 1>>]
           \/ key = "RIGHT" /\ col < last
              /\ response' = [response EXCEPT !.cursor_pos = <<row, col + 1>>]
        /\ UNCHANGED <<progressFile, historyFile, call, played, faults, pinned,
                       sessionVars, challenge>>

\* lines 568-574: SPACE removes the cell under the cursor from the
\* selection, or appends it while the selection is below pattern_size
toggle_cell ==
    LET selected == response.selected_cells
        at == { i \in 1..Len(selected) : selected[i] = response.cursor_pos }
    IN  /\ Answering
        /\ IF at # {}
           THEN response' = [response EXCEPT !.selected_cells =
                                SelectSeq(selected, LAMBDA c : c # response.cursor_pos)]
           ELSE /\ Len(selected) < response.config.pattern_size
                /\ response' = [response EXCEPT !.selected_cells =
                                   Append(selected, response.cursor_pos)]
        /\ UNCHANGED <<progressFile, historyFile, call, played, faults, pinned,
                       sessionVars, challenge>>

\* lines 560-567: S or ENTER submits the selection
submit_cells ==
    /\ Answering
    /\ response' = [graded |-> TRUE, submitted |-> TRUE,
                    success |-> grade_selected_cells(response.selected_cells,
                                                     response.pattern),
                    user_answer |-> response.selected_cells] @@ response
    /\ UNCHANGED <<progressFile, historyFile, call, played, faults, pinned,
                   sessionVars, challenge>>

\* lines 554-559: M, or Ctrl-C, which also sets WM_EXIT
leave_grid(key) ==
    /\ Answering
    /\ response' = [graded |-> TRUE, submitted |-> FALSE, success |-> FALSE,
                    user_answer |-> <<>>] @@ response
    /\ WM_EXIT' = (key = "CTRL_C")
    /\ UNCHANGED <<progressFile, historyFile, call, played, faults, pinned,
                   session, exiting, challenge>>

GridNext ==
    \/ \E key \in MoveKeys : move_cursor(key)
    \/ toggle_cell
    \/ submit_cells
    \/ \E key \in {"M", "CTRL_C"} : leave_grid(key)

GridSpec == GridInit /\ [][GridNext]_vars

---------------------------------------------------------------------------
(* save_load.py: load_json_file on its own, called with a default, on a    *)
(* document in any of the states a run leaves it in: never written,        *)
(* written whole, or left undecodable by a write that did not complete.    *)
(* call holds the document before the call, the default and the result.    *)

LoadDocuments(game) ==
    { default_game_progress(game),
      next_progress(default_game_progress(game), TRUE, EarlierResponseTime),
      next_progress(default_game_progress(game), FALSE, EarlierResponseTime) }

\* The documents with the progress document of the game written, whole or
\* not, and the other never written.
LoadFiles(game) ==
    { [g \in Games |-> IF g = game THEN file ELSE AbsentFile] :
         file \in { ValidFile(d) : d \in LoadDocuments(game) }
                  \cup { CorruptFile(ValidFile(d)) : d \in LoadDocuments(game) } }

LoadInit ==
    /\ progressFile \in [Games -> {AbsentFile}] \cup UNION { LoadFiles(game) : game \in Games }
    /\ historyFile \in
          [Games -> {AbsentFile, ValidFile(<<>>), CorruptFile(ValidFile(<<>>))}]
    /\ call = NoCall
    /\ played = 0
    /\ faults = 0
    /\ pinned = NoPair
    /\ session = NoSession
    /\ WM_EXIT = FALSE
    /\ exiting = FALSE
    /\ challenge = NoChallenge
    /\ response = NoResponse

\* load_game_progress(game), with the outcome w of the write it may make
load_progress_document(game, w) ==
    LET l == load_game_progress(game, progressFile[game], w)
    IN  /\ progressFile[game].st = "valid" => w = "ok"
        /\ progressFile' = [progressFile EXCEPT ![game] = l.file]
        /\ call' = [outcome |-> IF l.raised THEN "load_raised" ELSE "loaded",
                    before |-> progressFile[game], write |-> w,
                    default |-> default_game_progress(game), value |-> l.value]
        /\ UNCHANGED <<historyFile, played, faults, pinned, sessionVars, pureVars>>

\* load_game_history(game), with the outcome w of the write it may make
load_history_document(game, w) ==
    LET l == load_game_history(historyFile[game], w)
    IN  /\ historyFile[game].st = "valid" => w = "ok"
        /\ historyFile' = [historyFile EXCEPT ![game] = l.file]
        /\ call' = [outcome |-> IF l.raised THEN "load_raised" ELSE "loaded",
                    before |-> historyFile[game], write |-> w,
                    default |-> <<>>, value |-> l.value]
        /\ UNCHANGED <<progressFile, played, faults, pinned, sessionVars, pureVars>>

LoadNext ==
    \/ \E game \in Games, w \in WriteOutcomes : load_progress_document(game, w)
    \/ \E game \in Games, w \in WriteOutcomes : load_history_document(game, w)

LoadSpec == LoadInit /\ [][LoadNext]_vars

---------------------------------------------------------------------------
(* Claims about update_progress.  Returned: the last call ran to its       *)
(* return, so call holds the record it loaded (loaded), the record after   *)
(* lines 63-75 (counted) and the record it saved (game_progress).          *)

Returned == call.outcome = "returned"

IsPrefix(s, t) == Len(s) <= Len(t) /\ SubSeq(t, 1, Len(s)) = s

\* The log of a game as load_game_history returns it.
HistoryLog(files, game) ==
    IF files[game].st = "valid" THEN files[game].doc ELSE <<>>

LevelUpCondition(gp) == gp.upgrade >= 10 /\ gp.level < 10

LevelDownCondition(gp) == gp.upgrade <= -5 /\ gp.level > 1

\* C1: after any sequence of update_progress calls from the default record,
\* the level is within 1..10: in every progress document on disk and in the
\* record every call returns.
C1_LevelInRange ==
    /\ \A g \in Games :
          progressFile[g].st = "valid" => progressFile[g].doc.level \in 1..10
    /\ Returned => call.game_progress.level \in 1..10

\* C1 witness: a success at level 10 with the upgrade counter past +10 has
\* left the level at 10.
C1_Witness ==
    /\ Returned /\ call.success
    /\ call.loaded.level = 10 /\ call.loaded.upgrade >= 10
    /\ call.game_progress.level = 10

\* C2: if after the counter update upgrade >= 10 and level < 10, the level
\* goes up by exactly 1, upgrade becomes 0 and highest_level_reached becomes
\* the maximum of its old value and the new level.
C2_LevelUp ==
    Returned /\ LevelUpCondition(call.counted) =>
        /\ call.game_progress.level = call.loaded.level + 1
        /\ call.game_progress.upgrade = 0
        /\ call.game_progress.highest_level_reached =
              Max(call.loaded.highest_level_reached, call.game_progress.level)

\* C2 witness: from level 3, upgrade 9, one success gives level 4, upgrade 0
\* and highest_level_reached at least 4.
C2_Witness ==
    /\ Returned /\ call.success
    /\ call.loaded.level = 3 /\ call.loaded.upgrade = 9
    /\ call.game_progress.level = 4 /\ call.game_progress.upgrade = 0
    /\ call.game_progress.highest_level_reached >= 4

\* C3: if the level-up condition does not hold and after the counter update
\* upgrade <= -5 and level > 1, the level goes down by exactly 1, upgrade
\* becomes 0 and highest_level_reached is unchanged; the level-up is checked
\* first and at most one of the two fires: a call changes the level by at
\* most 1, upwards only under the level-up condition and downwards only
\* under the level-down condition without the level-up condition.
C3_LevelDown ==
    Returned =>
        /\ (~LevelUpCondition(call.counted) /\ LevelDownCondition(call.counted) =>
               /\ call.game_progress.level = call.loaded.level - 1
               /\ call.game_progress.upgrade = 0
               /\ call.game_progress.highest_level_reached =
                     call.loaded.highest_level_reached)
        /\ (call.game_progress.level > call.loaded.level =>
               /\ LevelUpCondition(call.counted)
               /\ call.game_progress.level = call.loaded.level + 1)
        /\ (call.game_progress.level < call.loaded.level =>
               /\ ~LevelUpCondition(call.counted) /\ LevelDownCondition(call.counted)
               /\ call.game_progress.level = call.loaded.level - 1)

\* C3 witness: from level 3, upgrade -4, one failure gives level 2, upgrade 0.
C3_Witness ==
    /\ Returned /\ ~call.success
    /\ call.loaded.level = 3 /\ call.loaded.upgrade = -4
    /\ call.game_progress.level = 2 /\ call.game_progress.upgrade = 0

\* C4: one call increments total_challenges by exactly 1; on success the
\* counter update increments successful_challenges, current_streak and
\* upgrade by 1 each; on failure it sets current_streak to 0, decrements
\* upgrade by 1 and leaves successful_challenges; afterwards longest_streak
\* is the maximum of its old value and the new current_streak.  (upgrade is
\* the value after lines 63-75, before the level check may reset it.)
C4_Counters ==
    Returned =>
        /\ call.game_progress.total_challenges = call.loaded.total_challenges + 1
        /\ (call.success =>
               /\ call.game_progress.successful_challenges =
                     call.loaded.successful_challenges + 1
               /\ call.game_progress.current_streak = call.loaded.current_streak + 1
               /\ call.counted.upgrade = call.loaded.upgrade + 1)
        /\ (~call.success =>
               /\ call.game_progress.successful_challenges =
                     call.loaded.successful_challenges
               /\ call.game_progress.current_streak = 0
               /\ call.counted.upgrade = call.loaded.upgrade - 1)
        /\ call.game_progress.longest_streak =
              Max(call.loaded.longest_streak, call.game_progress.current_streak)

\* C4 witness: a failure that ends a streak which was the longest one.
C4_Witness ==
    /\ Returned /\ ~call.success
    /\ call.loaded.current_streak > 0
    /\ call.loaded.current_streak = call.loaded.longest_streak
    /\ call.game_progress.current_streak = 0
    /\ call.game_progress.longest_streak = call.loaded.longest_streak

\* C5: in every progress record, successful_challenges <= total_challenges.
C5_SuccessfulAtMostTotal ==
    /\ \A g \in Games :
          progressFile[g].st = "valid" =>
             progressFile[g].doc.successful_challenges <=
                progressFile[g].doc.total_challenges
    /\ Returned =>
          call.game_progress.successful_challenges <=
             call.game_progress.total_challenges

\* C5 witness: a record with failures and successes, after a success.
C5_Witness ==
    /\ Returned /\ call.success
    /\ call.game_progress.successful_challenges > 0
    /\ call.game_progress.successful_challenges <
          call.game_progress.total_challenges

\* C6: in every progress record highest_level_reached >= level, and no call
\* lowers highest_level_reached: a level-down leaves it unchanged.
C6_HighestLevel ==
    /\ \A g \in Games :
          progressFile[g].st = "valid" =>
             progressFile[g].doc.highest_level_reached >= progressFile[g].doc.level
    /\ Returned =>
          /\ call.game_progress.highest_level_reached >= call.game_progress.level
          /\ call.game_progress.highest_level_reached >=
                call.loaded.highest_level_reached
          /\ (call.game_progress.level < call.loaded.level =>
                 call.game_progress.highest_level_reached =
                    call.loaded.highest_level_reached)

\* C6 witness: a level-down that leaves highest_level_reached above the level.
C6_Witness ==
    /\ Returned
    /\ call.game_progress.level < call.loaded.level
    /\ call.game_progress.highest_level_reached > call.game_progress.level

\* C7: at level 10 a success leaves the level at 10 and increments upgrade
\* without resetting it; at level 1 a failure leaves the level at 1 and
\* decrements upgrade without resetting it.
C7_PinnedLevel ==
    Returned =>
        /\ (call.loaded.level = 10 /\ call.success =>
               /\ call.game_progress.level = 10
               /\ call.game_progress.upgrade = call.loaded.upgrade + 1)
        /\ (call.loaded.level = 1 /\ ~call.success =>
               /\ call.game_progress.level = 1
               /\ call.game_progress.upgrade = call.loaded.upgrade - 1)

\* C7 witness: at level 10 a success has taken upgrade past +10.
C7_Witness ==
    /\ Returned /\ call.success
    /\ call.loaded.level = 10
    /\ call.game_progress.level = 10 /\ call.game_progress.upgrade > 10

\* C8 as claimed: from level 10 with any two upgrade values >= 10 (or from
\* level 1 with any two values <= -5) the same outcomes produce the same
\* levels, round after round.
C8_SameLevels ==
    pinned # NoPair /\ pinned.phase = "run" => pinned.a.level = pinned.b.level

\* The net outcomes against the pin that take a pinned record with upgrade u
\* to the opposite threshold.
Needed(level, u) == IF level = 10 THEN u + 5 ELSE 10 - u


\* C8 amended: the same outcomes produce the same levels (both records stay
\* at the pinned level) for as long as the outcomes against the pin have not
\* outnumbered the others by the smaller surplus plus the opposite threshold:
\* min(u1, u2) + 5 net failures at level 10, 10 - max(u1, u2) net successes
\* at level 1.
C8_SameLevelsWhilePinned ==
    pinned # NoPair /\ pinned.phase = "run"
    /\ pinned.peak < Min(Needed(pinned.level, pinned.surplus_a),
                         Needed(pinned.level, pinned.surplus_b))
    => /\ pinned.a.level = pinned.level
       /\ pinned.b.level = pinned.level

\* C8 witness: two records pinned at level 10 with different surpluses, one
\* net failure short of the first level-down, still both at level 10.
C8_Witness ==
    /\ pinned # NoPair /\ pinned.phase = "run"
    /\ pinned.level = 10
    /\ pinned.surplus_a # pinned.surplus_b
    /\ pinned.peak = Min(Needed(10, pinned.surplus_a), Needed(10, pinned.surplus_b)) - 1
    /\ pinned.against = pinned.peak
    /\ pinned.a.level = 10 /\ pinned.b.level = 10

\* C9: every update_progress call appends exactly one entry to the history
\* log of its game (the other logs are left alone), and the entry's level is
\* the level before the call's level transition.
C9_HistoryEntry ==
    [][call' # call =>
          LET g == call'.game
          IN  /\ HistoryLog(historyFile', g) =
                    Append(HistoryLog(historyFile, g), call'.entry)
              /\ call'.entry.game = g
              /\ call'.entry.success = call'.success
              /\ call'.entry.level = call'.loaded.level
              /\ \A o \in Games \ {g} : historyFile'[o] = historyFile[o]]_vars

\* C9 witness: a level-up from 3 to 4 whose entry, the last of the log,
\* records level 3.
C9_Witness ==
    /\ Returned
    /\ call.loaded.level = 3 /\ call.game_progress.level = 4
    /\ LET log == HistoryLog(historyFile, call.game)
       IN  /\ Len(log) = call.game_progress.total_challenges
           /\ log[Len(log)] = call.entry
           /\ log[Len(log)].level = 3

\* C10 as claimed: the history log of a game is append-only: every step
\* leaves the entries the log held as a prefix of the entries it holds, and
\* so never shortens it.  (A document that a failed write left undecodable
\* counts with the entries it held before that write.)
C10_AppendOnly ==
    [][\A g \in Games : IsPrefix(historyFile[g].doc, historyFile'[g].doc)]_vars

---------------------------------------------------------------------------
(* Claims about a session and its aborts.  InSession: start_game_session   *)
(* has been called.  session.aborted tells where the first abort of the    *)
(* session was signalled: "explain", "answer" or "results" for the key     *)
(* that set WM_EXIT there, "signal" for SIGINT.                            *)

InSession == session.pc # "menu"

\* C11: when an abort is signalled while a round is in flight (Ctrl-C during
\* the answer entry sets WM_EXIT), update_progress still runs for that round
\* before the session ends: at the end every round whose game function
\* returned has had its progress update.
C11_RoundInFlightCompletes ==
    InSession /\ session.pc = "done" /\ session.aborted = "answer"
    => session.updated = session.answered

\* C12: once an abort has been signalled in a session (WM_EXIT set or
\* exiting[0] true), no further round starts: no game is popped from the
\* queue and no game function is called, whatever the queue holds.
C12_NoRoundAfterAbort ==
    [][ InSession /\ session.aborted # "no"
        => /\ session'.games_queue = session.games_queue
           /\ session'.challenges_completed = session.challenges_completed
           /\ session'.invoked = session.invoked ]_vars

\* C12 witness: SIGINT was caught on the explanation screen, the player then
\* pressed ENTER, and the session has ended with its queue not empty and no
\* game function called.
C12_Witness ==
    /\ InSession
    /\ session.aborted = "signal" /\ exiting
    /\ session.pc = "done"
    /\ session.games_queue # <<>>
    /\ session.continue_session
    /\ session.invoked = 0

\* The rounds the progress document of a game counts.
RecordedRounds(game) ==
    IF progressFile[game].st = "valid"
    THEN progressFile[game].doc.total_challenges
    ELSE 0

\* C13: an abort delivered at any point (SIGINT, whose handler calls
\* sys.exit) never leaves the persisted state partially updated: once an
\* answer has been submitted, the updated progress record and its history
\* entry are both persisted or neither is, so the record of every game
\* counts as many rounds as its history holds.
C13_RecordAndEntryTogether ==
    InSession /\ session.pc = "exited" /\ session.answered > 0
    => \A g \in Games : RecordedRounds(g) = Len(HistoryLog(historyFile, g))

\* config is a configuration generate_next_challenge_config can return for
\* the level.
IsConfigFor(game, config, level) ==
    IF game = "digit_span"
    THEN /\ config.sequence_length = 3 + (level - 1) * 1
         /\ config.display_time = Max(30, 100 - (level - 1) * 10)
         /\ config.inter_digit_delay = Max(10, 50 - (level - 1) * 5)
    ELSE /\ config.grid_size = 3 + Min((level - 1) \div 2, 4)
         /\ config.pattern_size >= 3 + (level - 1) * 2
         /\ config.pattern_size <= 3 + level * 2
         /\ config.display_time = Max(50, 150 - (level - 1) * 10)

\* C14: after each completed round (the game function has returned and
\* update_progress has been applied) the persisted next_challenge is a
\* configuration generated for the level now stored in the record, and every
\* round is played with the configuration of the level the player has at
\* its start.
C14_NextChallengeForStoredLevel ==
    /\ InSession /\ session.pc = "results"
       => LET doc == progressFile[session.current_game].doc
          IN  IsConfigFor(session.current_game, doc.next_challenge, doc.level)
    /\ InSession /\ session.pc = "answer"
       => IsConfigFor(session.current_game, session.challenge_config,
                      session.current_level)

\* C24: a session starts with a queue of challenges_per_session tokens;
\* tokens leave the queue only at its front, one for each round counted, and
\* an accepted continuation appends exactly 4 tokens at its back, so at
\* every point of the session challenges_completed + len(queue) =
\* challenges_per_session + 4 * (number of extensions).
C24_QueueAccounting ==
    /\ [](InSession =>
             session.challenges_completed + Len(session.games_queue)
                = session.challenges_per_session + 4 * session.extensions)
    /\ [][InSession /\ session'.games_queue # session.games_queue
          => \/ /\ session.games_queue # <<>>
                /\ session'.games_queue = Tail(session.games_queue)
                /\ session'.challenges_completed = session.challenges_completed + 1
             \/ /\ Len(session'.games_queue) = Len(session.games_queue) + 4
                /\ SubSeq(session'.games_queue, 1, Len(session.games_queue))
                      = session.games_queue
                /\ session'.extensions = session.extensions + 1]_vars

\* C24 witness: a session of one challenge, extended once, in the second
\* round of the extension.
C24_Witness ==
    /\ InSession
    /\ session.challenges_per_session = 1
    /\ session.extensions = 1
    /\ session.challenges_completed = 3
    /\ Len(session.games_queue) = 2
    /\ session.pc = "answer"

\* C25: on the results screen of a scored round, with an empty queue the key
\* is a continuation decision: Y appends 4 challenges and the session runs
\* on, N (stop) and P (show progress) end it; with a queue that is not empty
\* every key but M and Q starts the next round with the queue as it is.
\* Once the session is ended no further round starts.
C25_ContinuationDecision ==
    /\ [][InSession /\ session.pc = "results" /\ session'.pc \in {"loop", "done"}
          => IF session.games_queue = <<>>
             THEN /\ session'.key = "Y"
                     => /\ Len(session'.games_queue) = 4
                        /\ session'.continue_session
                        /\ session'.pc = "loop"
                  /\ session'.key \in {"N", "P"}
                     => /\ ~session'.continue_session
                        /\ session'.games_queue = <<>>
             ELSE /\ session'.key \notin {"M", "Q"}
                     => /\ session'.continue_session
                        /\ session'.games_queue = session.games_queue
                        /\ session'.pc = "loop"
                  /\ session'.key \in {"M", "Q"}
                     => ~session'.continue_session]_vars
    /\ [][InSession /\ ~session.continue_session
          => /\ session'.invoked = session.invoked
             /\ session'.challenges_completed = session.challenges_completed]_vars

\* C25 witness: the progress view was chosen on an empty queue and the
\* session has ended with every round of its queue played.
C25_Witness ==
    /\ InSession
    /\ session.key = "P"
    /\ session.pc = "done"
    /\ session.games_queue = <<>>
    /\ ~session.continue_session
    /\ session.invoked = session.challenges_per_session

\* The counters of a progress document (of one left undecodable, those it
\* held before).
Counters(file) ==
    IF file.st = "absent"
    THEN <<0, 0, 0>>
    ELSE <<file.doc.total_challenges, file.doc.upgrade, file.doc.current_streak>>

\* C30: the progress record is mutated only for completed challenges: inside
\* a session, total_challenges, upgrade, current_streak and the history log
\* change only in the update of a round whose answer was submitted (ENTER),
\* never for a round left with M or Ctrl-C.
C30_OnlySubmittedAnswers ==
    [][(InSession
          /\ \E g \in Games :
                \/ Counters(progressFile'[g]) # Counters(progressFile[g])
                \/ HistoryLog(historyFile', g) # HistoryLog(historyFile, g))
       => (session.pc \in {"save", "log"}
             /\ session.key \in {"ENTER", "ENTER_WRONG"})]_vars

\* C27: no persistence or format error ends an in-progress session: when
\* start_game_session is over and the player has not left it (no M, no Q,
\* no Ctrl-C, no signal) and no game function raised an exception of its
\* own, the queue is empty and every round that was started has had its
\* progress update, whatever the progress documents held and whichever
\* writes failed.
C27_NoPersistenceErrorEndsSession ==
    (/\ InSession
     /\ session.pc \in {"done", "crashed"}
     /\ session.aborted = "no"
     /\ session.error # "game"
     /\ session.key \notin {"M", "Q"})
    => (/\ session.pc = "done"
        /\ session.games_queue = <<>>
        /\ session.updated = session.challenges_completed)

\* C28: a failed save is not raised: the step in which save_json_file fails
\* inside update_next_challenge or update_progress goes where the step of a
\* successful save goes (the game function returns, update_progress goes on
\* to the history entry and returns to the results screen), and the session
\* is not ended by it.
C28_FailedSaveNotRaised ==
    [][(InSession /\ session'.failed_saves > session.failed_saves)
       => (/\ session'.pc = (CASE session.pc = "answer" -> "played"
                               [] session.pc = "save" -> "log"
                               [] session.pc = "log" -> "results"
                               [] OTHER -> "none")
           /\ session'.continue_session = session.continue_session
           /\ session'.error = session.error)]_vars

\* C28 witness: the save of update_progress failed in the first round, the
\* results screen was passed and the second round is being played.
C28_Witness ==
    /\ InSession
    /\ session.failed_saves = 1
    /\ session.updated = 1
    /\ session.invoked = 2
    /\ session.pc = "answer"
    /\ progressFile[session.current_game].st = "valid"
    /\ progressFile[session.current_game].doc.total_challenges = 0

---------------------------------------------------------------------------
(* Claims about the configuration generators.  Generated: a generation has *)
(* run on the level and meta-parameters held in challenge.                 *)

DigitSpanGenerated == challenge.game = "digit_span" /\ challenge.generated

SpatialPatternGenerated == challenge.game = "spatial_pattern" /\ challenge.generated

\* C15: for every level, every outcome of the coin flips and every order of
\* the introduction levels, a generated digit-span configuration has at most
\* one of backward, selective_recall and ordering set: ordering excludes the
\* two others and selective_recall excludes backward.
C15_OneTask ==
    DigitSpanGenerated =>
        /\ challenge.config.ordering =>
              ~challenge.config.backward /\ ~challenge.config.selective_recall
        /\ challenge.config.selective_recall => ~challenge.config.backward

\* C15 witness: ordering is introduced before selective recall and backward,
\* all three flips came up True, and the ordering task was generated.
C15_Witness ==
    /\ DigitSpanGenerated
    /\ challenge.meta.ordering_intro_level < challenge.meta.selective_recall_intro_level
    /\ challenge.meta.selective_recall_intro_level < challenge.meta.backward_intro_level
    /\ challenge.level >= challenge.meta.backward_intro_level
    /\ challenge.coins.backward /\ challenge.coins.selective_recall
    /\ challenge.coins.ordering
    /\ challenge.config.ordering

\* The outcomes of the coin flips of one generation that give backward.
BackwardOutcomes(level, meta) ==
    { coins \in DigitSpanCoins :
         digit_span_generate_next_challenge_config(level, meta, coins).backward }

\* C16: with the default introduction levels, at every level from 4 on the
\* generated digit-span configuration has backward set in exactly half of
\* the equally likely outcomes of the coin flips.
C16_BackwardHalf ==
    DigitSpanGenerated /\ challenge.meta = DigitSpanMeta
       /\ challenge.level >= challenge.meta.backward_intro_level
    => 2 * Cardinality(BackwardOutcomes(challenge.level, challenge.meta))
          = Cardinality(DigitSpanCoins)

\* C17: at every level 1..10 with the default meta-parameters the digit-span
\* configuration has display_time >= 0.3 s and inter_digit_delay >= 0.1 s and
\* the spatial-pattern configuration has display_time >= 0.5 s, and each is
\* base - (level - 1) * reduction whenever that is above its floor.
C17_TimeFloors ==
    /\ DigitSpanGenerated =>
          LET m == challenge.meta
              display == m.base_display_time
                            - (challenge.level - 1) * m.display_time_reduction_per_level
              delay == m.base_delay_time
                          - (challenge.level - 1) * m.delay_time_reduction_per_level
          IN  /\ challenge.config.display_time >= 30
              /\ challenge.config.inter_digit_delay >= 10
              /\ display > 30 => challenge.config.display_time = display
              /\ delay > 10 => challenge.config.inter_digit_delay = delay
    /\ SpatialPatternGenerated /\ ~challenge.raised =>
          LET m == challenge.meta
              display == m.display_time_base
                            - (challenge.level - 1) * m.display_time_reduction_per_level
          IN  /\ challenge.config.display_time >= 50
              /\ display > 50 => challenge.config.display_time = display

\* C17 witness: at level 10 the digit-span display time, 0.1 s by the linear
\* rule, is held at 0.3 s.
C17_Witness ==
    /\ DigitSpanGenerated
    /\ challenge.level = 10
    /\ challenge.meta.base_display_time
          - 9 * challenge.meta.display_time_reduction_per_level < 30
    /\ challenge.config.display_time = 30
    /\ challenge.config.inter_digit_delay = 10

---------------------------------------------------------------------------
(* Claims about the evaluator.  Graded: the player validated an answer to  *)
(* the sequence and configuration held in response.                        *)

Graded == response.graded

Count(seq, d) == Cardinality({i \in 1..Len(seq) : seq[i] = d})

\* t holds the elements of s, each as often as s does.
IsPermutation(s, t) ==
    /\ Len(s) = Len(t)
    /\ \A i \in 1..Len(s) : Count(s, s[i]) = Count(t, s[i])

IsAscending(s) == \A i \in 1..Len(s) : \A j \in i..Len(s) : s[i] <= s[j]

OddPositions(s) == {i \in 1..Len(s) : s[i] % 2 = 1}

\* t is s without its even digits.
IsOddDigitsOf(s, t) ==
    /\ Len(t) = Cardinality(OddPositions(s))
    /\ \A p \in OddPositions(s) :
          t[Cardinality({q \in OddPositions(s) : q <= p})] = s[p]

IsReverseOf(s, t) ==
    /\ Len(t) = Len(s)
    /\ \A i \in 1..Len(s) : t[i] = s[Len(s) + 1 - i]

\* C19: the expected answer is the reversed sequence if backward is set;
\* else the odd digits in their original order if selective_recall is set;
\* else the sequence sorted ascending if ordering is set; else the sequence
\* itself.
C19_ExpectedAnswer ==
    Graded =>
        LET flags == response.config
            sequence == response.sequence
            expected == response.expected
        IN  IF flags.backward THEN IsReverseOf(sequence, expected)
            ELSE IF flags.selective_recall THEN IsOddDigitsOf(sequence, expected)
            ELSE IF flags.ordering
                 THEN IsAscending(expected) /\ IsPermutation(sequence, expected)
            ELSE expected = sequence

\* C19 witness: with all three flags set, 1 2 3 is expected as 3 2 1.
C19_Witness ==
    /\ Graded
    /\ response.config.backward /\ response.config.selective_recall
    /\ response.config.ordering
    /\ response.sequence = <<1, 2, 3>>
    /\ response.expected = <<3, 2, 1>>

\* C20: a failing answer gets one message: the length message with the
\* expected and the actual length if the lengths differ; else the wrong-order
\* message if the answer is a permutation of the expected answer and the
\* ordering flag is not set; else the generic message with the number of
\* positions that match.  Expected 1 2 3: the answer 3 2 1 gets the
\* wrong-order message and the answer 1 2 gets "Expected 3 digits, got 2".
C20_Feedback ==
    Graded /\ response.user_answer # response.expected =>
        LET expected == response.expected
            user_answer == response.user_answer
            feedback == response.validation_feedback
            matching == Cardinality({i \in 1..Len(expected) :
                                        user_answer[i] = expected[i]})
        IN  /\ ~response.success
            /\ IF Len(user_answer) # Len(expected)
               THEN feedback = [text |-> "Incorrect length",
                                expected |-> Len(expected),
                                got |-> Len(user_answer)]
               ELSE IF IsPermutation(expected, user_answer)
                       /\ ~response.config.ordering
               THEN feedback.text = "All digits correct but in wrong order"
               ELSE /\ feedback.text = "Partially correct"
                    /\ feedback.correct_positions = matching
            /\ (expected = <<1, 2, 3>> /\ user_answer = <<3, 2, 1>>
                   /\ ~response.config.ordering
                => feedback.text = "All digits correct but in wrong order")
            /\ (expected = <<1, 2, 3>> /\ user_answer = <<1, 2>>
                => feedback = [text |-> "Incorrect length", expected |-> 3, got |-> 2])

\* C20 witness: under an ordering task the answer 2 1 3 to the expected
\* 1 2 3 holds the right digits and gets the generic message.
C20_Witness ==
    /\ Graded
    /\ ~response.config.backward /\ ~response.config.selective_recall
    /\ response.config.ordering
    /\ response.expected = <<1, 2, 3>>
    /\ response.user_answer = <<2, 1, 3>>
    /\ response.validation_feedback =
          [text |-> "Partially correct", correct_positions |-> 1, expected |-> 3]

---------------------------------------------------------------------------
(* Claims about the stimulus of a digit-span round. *)

\* C21: generate_sequence under a configuration with selective_recall set
\* and sequence_length >= 1 returns exactly sequence_length digits of 0..9,
\* at least one of them odd, so the expected answer of the round is not
\* empty.
C21_OddDigitToRecall ==
    challenge.game = "digit_span" /\ challenge.pc \in {"shown", "saved"}
       /\ challenge.config.selective_recall
    => /\ Len(challenge.sequence) = challenge.config.sequence_length
       /\ \A i \in 1..Len(challenge.sequence) : challenge.sequence[i] \in 0..9
       /\ \E i \in 1..Len(challenge.sequence) : challenge.sequence[i] % 2 = 1
       /\ challenge.expected # <<>>

\* C21 witness: every digit drawn for a selective-recall round was even and
\* the sequence shown holds an odd one.
C21_Witness ==
    /\ challenge.game = "digit_span" /\ challenge.pc = "shown"
    /\ challenge.config.selective_recall
    /\ Len(challenge.drawn) = 3
    /\ \A i \in 1..3 : challenge.drawn[i] % 2 = 0
    /\ challenge.sequence # challenge.drawn

\* C29: after a digit-span round, get_expected_answer on the sequence and
\* the configuration persisted in the progress document gives the expected
\* answer of the sequence that was just shown.
C29_ExpectedAnswerReconstructed ==
    challenge.game = "digit_span" /\ challenge.pc = "saved"
    => get_expected_answer(challenge.document.current_sequence,
                           challenge.document.next_challenge)
          = challenge.expected

---------------------------------------------------------------------------
(* Claims about the grading of a spatial pattern. *)

CellSet(cells) == { cells[i] : i \in 1..Len(cells) }

\* C22: a submitted spatial-pattern answer is graded successful exactly when
\* the set of the selected cells is the set of the pattern cells, whatever
\* the order in which the cells were selected.
C22_SetEquality ==
    response # NoResponse /\ response.graded /\ response.submitted
    => (response.success <=> CellSet(response.user_answer) = CellSet(response.pattern))

\* C22 witness: the cells of the pattern were selected in another order than
\* the pattern lists them, and the answer is graded successful.
C22_Witness ==
    /\ response # NoResponse /\ response.graded /\ response.submitted
    /\ response.success
    /\ response.user_answer # response.pattern

---------------------------------------------------------------------------
(* Claim about the running mean. *)

RECURSIVE SumOfResponseTimes(_)
SumOfResponseTimes(log) ==
    IF log = <<>> THEN 0 ELSE log[1].response_time + SumOfResponseTimes(Tail(log))

\* C23: after every update_progress, avg_response_time multiplied by
\* total_challenges is the sum of the response times recorded for the game
\* (avg_response_time is the fraction num/den).
C23_RunningMean ==
    Returned =>
        LET gp == call.game_progress
            log == HistoryLog(historyFile, call.game)
        IN  gp.avg_response_time.num * gp.total_challenges
               = SumOfResponseTimes(log) * gp.avg_response_time.den

\* C23 witness: at least three rounds with different response times, and a
\* mean that is not a whole number.
C23_Witness ==
    /\ Returned
    /\ call.game_progress.total_challenges >= 3
    /\ call.game_progress.avg_response_time.den > 1
    /\ LET log == HistoryLog(historyFile, call.game)
       IN  \E i, j \in 1..Len(log) : log[i].response_time # log[j].response_time

---------------------------------------------------------------------------
(* Claims about the document store under errors. *)

Loaded == call.outcome \in {"loaded", "load_raised"}

\* C26: load_json_file called with a default never raises to its caller,
\* whatever the state of the file and whether or not the write it makes
\* succeeds; on an absent or undecodable file it returns the default, and on
\* a valid one the content.
C26_LoadNeverRaises ==
    Loaded =>
        /\ call.outcome = "loaded"
        /\ call.value = IF call.before.st = "valid"
                        THEN call.before.doc ELSE call.default

---------------------------------------------------------------------------
(* Claims about the progress record over many rounds.                      *)

\* C37: in every progress document reachable from the default record by
\* update_progress calls, a level in 2..9 comes with an upgrade counter
\* strictly between the thresholds, -4..9; the counter is outside that range
\* only at level 1 or 10.
C37_UpgradeBetweenThresholds ==
    \A g \in Games :
        progressFile[g].st = "valid" /\ progressFile[g].doc.level \in 2..9
        => progressFile[g].doc.upgrade \in -4..9

\* C37 witness: level 3 was reached and four failures have followed.
C37_Witness ==
    /\ Returned /\ ~call.success
    /\ progressFile["digit_span"].st = "valid"
    /\ progressFile["digit_span"].doc.level = 3
    /\ progressFile["digit_span"].doc.upgrade = -4

\* The level before each round of the log of a game, then the level now.
LevelsOf(g) ==
    LET log == HistoryLog(historyFile, g)
    IN  [k \in 1..(Len(log) + 1) |->
            IF k <= Len(log) THEN log[k].level ELSE progressFile[g].doc.level]

\* Round k of the log changed the level.
LevelChangedAt(g, k) == LevelsOf(g)[k + 1] # LevelsOf(g)[k]

\* C38: a round changes the level by at most 1, and after a round that
\* changed the level the next level-up is at least 10 rounds later and the
\* next level-down at least 5 rounds later (so never in the next round).
C38_HysteresisSpacing ==
    \A g \in Games :
        progressFile[g].st = "valid"
        => LET levels == LevelsOf(g)
               rounds == 1..(Len(levels) - 1)
               changes == { k \in rounds : levels[k + 1] # levels[k] }
           IN  /\ \A k \in rounds :
                      levels[k + 1] - levels[k] \in {-1, 0, 1}
               /\ \A k \in changes, j \in changes :
                      k < j => /\ levels[j + 1] > levels[j] => j - k >= 10
                               /\ levels[j + 1] < levels[j] => j - k >= 5

\* C38 witness: a level-up in round 20 and a level-down in round 25.
C38_Witness ==
    /\ progressFile["digit_span"].st = "valid"
    /\ Len(HistoryLog(historyFile, "digit_span")) = 25
    /\ LevelChangedAt("digit_span", 20)
    /\ LevelsOf("digit_span")[26] < LevelsOf("digit_span")[25]

\* C39: with every write succeeding, from the fresh install, the log of a
\* game has as many entries as the record counts challenges and as many
\* entries with success = true as it counts successful challenges.
C39_LogMatchesCounters ==
    \A g \in Games :
        LET log == HistoryLog(historyFile, g)
            successes == { k \in 1..Len(log) : log[k].success }
        IN  IF progressFile[g].st = "valid"
            THEN /\ Len(log) = progressFile[g].doc.total_challenges
                 /\ Cardinality(successes) = progressFile[g].doc.successful_challenges
            ELSE log = <<>>

\* C39 witness: a game with successes and failures, two rounds of them in
\* this run.
C39_Witness ==
    /\ played >= 2
    /\ \E g \in Games :
          /\ progressFile[g].st = "valid"
          /\ progressFile[g].doc.successful_challenges >= 1
          /\ progressFile[g].doc.total_challenges
                > progressFile[g].doc.successful_challenges
          /\ Len(HistoryLog(historyFile, g)) = progressFile[g].doc.total_challenges

\* The fields of a progress document that update_progress writes, and those
\* that update_next_challenge writes.
RecordFields ==
    {"level", "upgrade", "highest_level_reached", "total_challenges",
     "successful_challenges", "current_streak", "longest_streak",
     "avg_response_time"}

ChallengeFields ==
    {"next_challenge", "current_sequence", "current_pattern", "current_highlights"}

Restricted(doc, fields) == [k \in DOMAIN doc \cap fields |-> doc[k]]

\* C40: the two writers of a progress document keep each other's fields:
\* the save of update_next_challenge leaves the eight fields of the record
\* as they were, and the save of update_progress leaves next_challenge and
\* the persisted stimulus as they were.
C40_WritersKeepFields ==
    /\ [][(InSession /\ session.pc = "answer" /\ session'.pc = "played")
          => Restricted(progressFile'[session.current_game].doc, RecordFields)
                = Restricted(progressFile[session.current_game].doc, RecordFields)]_vars
    /\ [][(InSession /\ session.pc = "save" /\ session'.pc = "log")
          => Restricted(progressFile'[session.current_game].doc, ChallengeFields)
                = Restricted(progressFile[session.current_game].doc, ChallengeFields)]_vars

\* C40 witness: the second round of a game has been answered and its record
\* saved; the document holds the record of two rounds, the stimulus of the
\* second and a configuration for the third.
C40_Witness ==
    /\ InSession
    /\ session.pc = "log"
    /\ session.invoked = 2
    /\ LET doc == progressFile[session.current_game].doc
       IN  /\ progressFile[session.current_game].st = "valid"
           /\ doc.total_challenges >= 2
           /\ "next_challenge" \in DOMAIN doc
           /\ \/ "current_sequence" \in DOMAIN doc
                 /\ doc.current_sequence = session.stimulus
              \/ "current_pattern" \in DOMAIN doc
                 /\ doc.current_pattern = session.stimulus
           /\ session.stimulus # <<>>

---------------------------------------------------------------------------
(* Claims about the keys of a session.                                     *)

\* C31: in a digit_span round, ENTER on an answer that differs from the
\* expected answer ends the round with success = False (and the failure is
\* then applied to the record once).
C31_WrongAnswerEndsRound ==
    [][(/\ InSession
        /\ session.pc = "answer"
        /\ session.current_game = "digit_span"
        /\ session.key # "ENTER_WRONG"
        /\ session'.key = "ENTER_WRONG")
       => (/\ session'.pc = "played"
           /\ ~session'.success
           /\ session'.answered = session.answered + 1)]_vars

\* C32: M during the answer entry of a round returns to the main menu: the
\* session ends with that key, and the program goes to the loop test with
\* continue_session False or out of start_game_session, not to the progress
\* update and the results screen.
C32_MenuKeyEndsSession ==
    [][(/\ InSession
        /\ session.pc = "answer"
        /\ session'.key = "M"
        /\ session'.answered = session.answered + 1)
       => (/\ ~session'.continue_session
           /\ session'.pc \in {"loop", "done"})]_vars

\* C33: after Q or Ctrl-C at a prompt of the session (explanation screen,
\* answer entry, results screen) the main loop ends: the main menu is not
\* shown again.
C33_QuitKeyEndsProgram ==
    (InSession /\ session.aborted \in {"explain", "answer", "results"})
    => session.pc # "main_menu"

\* C34: when a category-random session is extended, the 4 appended
\* challenges are picks from the category: on the results screen of such a
\* session, with the queue empty, Y can append a game other than the one
\* just played.
C34_RandomExtensionPicks ==
    (/\ InSession
     /\ session.pc = "results"
     /\ session.choice_type = "random"
     /\ session.games_queue = <<>>
     /\ session.challenges_completed + 4 <= MaxSessionRounds)
    => ENABLED (/\ continuation_key("Y", NoWrites)
                /\ \E i \in 1..Len(session'.games_queue) :
                      session'.games_queue[i] # session.current_game)

---------------------------------------------------------------------------
(* Sessions over the three games that have a game function.                *)

\* wrapper.py lines 62-80: the games load_game_functions registers; the
\* modules of the other three games are not in the repository.
GAME_FUNCTIONS == {"digit_span", "n_back", "spatial_pattern"}

\* The queues a menu choice of strategy 1 can build that hold n_back.
NBackQueues ==
    { q \in UNION { [1..n -> GAME_FUNCTIONS] : n \in 1..MaxQueue } :
        \E i \in 1..Len(q) : q[i] = "n_back" }

\* The keys typed at the prompt of play_n_back: 'A' and another key.
NBackKeys == {"A", "B"}

\* n_back.py lines 6-29: what play_n_back returns, a pair.
play_n_back_result(key, response_time) == <<key = "A", response_time>>

\* game_session.py lines 300-311 for n_back: the call of the game function
\* and the unpacking of its result into three names.  A result that is not
\* of length 3 raises ValueError, caught at line 303: the error screen, then
\* continue_session = False and continue.
play_n_back(key, response_time) ==
    LET r == play_n_back_result(key, response_time)
    IN  /\ session.pc = "play"
        /\ session.current_game = "n_back"
        /\ session' = IF Len(r) = 3
                      THEN [session EXCEPT
                              !.success = r[1],
                              !.response_time = r[2],
                              !.user_answer = r[3],
                              !.invoked = @ + 1,
                              !.answered = @ + 1,
                              !.key = key,
                              !.pc = "played"]
                      ELSE [session EXCEPT
                              !.continue_session = FALSE,
                              !.error = "game",
                              !.invoked = @ + 1,
                              !.answered = @ + 1,
                              !.key = key,
                              !.pc = "loop"]
        /\ UNCHANGED <<progressFile, historyFile, call, played, faults, pinned,
                       WM_EXIT, exiting, pureVars>>

\* A fresh install with the files of the three games.
NBackInit ==
    /\ progressFile = [g \in GAME_FUNCTIONS |-> AbsentFile]
    /\ historyFile = [g \in GAME_FUNCTIONS |-> AbsentFile]
    /\ call = NoCall
    /\ played = 0
    /\ faults = 0
    /\ pinned = NoPair
    /\ session = NoSession
    /\ WM_EXIT = FALSE
    /\ exiting = FALSE
    /\ challenge = NoChallenge
    /\ response = NoResponse

NBackNext ==
    \/ \E choice_type \in ChoiceTypes, picks \in NBackQueues :
          start_game_session(choice_type, "n_back", Len(picks), picks)
    \/ loop_test("ok")
    \/ explain_load("ok")
    \/ \E key \in ExplanationKeys : explanation_key(key)
    \/ play("ok")
    \/ \E key \in NBackKeys : play_n_back(key, EarlierResponseTime)
    \/ \E key \in AnswerKeys : answer_key(key, EarlierResponseTime, "ok", "ok")
    \/ check_exit("ok")
    \/ save_progress("ok")
    \/ log_entry("ok", "ok", "ok")
    \/ \E key \in ContinuationKeys : continuation_key(key, NoWrites)
    \/ main_after_session

NBackSpec == NBackInit /\ [][NBackNext]_vars

\* C35: a round of a game that has a game function, answered by the user,
\* ends with its result handed to update_progress: 'A' typed in n_back ends
\* the call of the game function with success True, the round goes on to
\* the progress update and the session continues.
C35_NBackRoundRecorded ==
    [][(/\ InSession
        /\ session.pc = "play"
        /\ session.current_game = "n_back"
        /\ session'.key = "A"
        /\ session'.answered = session.answered + 1)
       => (/\ session'.pc = "played"
           /\ session'.success
           /\ session'.continue_session)]_vars

---------------------------------------------------------------------------
(* The settings menu and the edit of challenges_per_session.               *)

\* save_load.py line 107: challenges_per_session of the default settings
DefaultChallengesPerSession == 10

\* main_menu.py line 375: the longest input the edit accepts
MaxInputLength == 3

\* The digit keys typed in the edit.
SettingsDigits == {0, 1, 2}

\* The values of challenges_per_session in the settings document at the
\* start, when there is one.
InitialChallengesPerSession == {1, 120}

\* save_load.py lines 103-164: the default settings (of user_settings, the
\* key the edit writes)
default_settings == [challenges_per_session |-> DefaultChallengesPerSession]

\* str(n) of a non-negative integer: its decimal digits
RECURSIVE str(_)
str(n) == IF n < 10 THEN <<n>> ELSE Append(str(n \div 10), n % 10)

\* int(s) of a non-empty string of digits
RECURSIVE int(_)
int(s) ==
    IF Len(s) = 1 THEN s[1]
    ELSE 10 * int(SubSeq(s, 1, Len(s) - 1)) + s[Len(s)]

\* the edit that stores every number typed
stores_new_value_any_number(input_str) == input_str # <<>>

\* main_menu.py lines 339-344: ENTER stores the input when it is not empty
\* and its value is positive
stores_new_value(input_str) == input_str # <<>> /\ int(input_str) > 0

\* The user interface before settings_menu is entered.
NoSettings ==
    [pc |-> "main_menu", settings |-> <<>>, input_str |-> <<>>, key |-> "none"]

\* wrapper.py line 156, main_menu.py line 207: settings_menu loads the
\* settings; w is the outcome of the write the load makes on a document that
\* is absent or undecodable.  The settings document is kept in
\* progressFile["settings"].
settings_menu(w) ==
    LET l == load_json_file(progressFile["settings"], default_settings, w)
    IN  /\ call.pc = "main_menu"
        /\ ~exiting
        /\ progressFile["settings"].st = "valid" => w = "ok"
        /\ faults + Failed(w) <= MaxFaults
        /\ faults' = faults + Failed(w)
        /\ progressFile' = [progressFile EXCEPT !["settings"] = l.file]
        /\ call' = IF l.raised
                   THEN [call EXCEPT !.pc = "crashed"]
                   ELSE [call EXCEPT !.pc = "settings_menu", !.settings = l.value,
                                     !.key = "none"]
        /\ UNCHANGED <<historyFile, played, pinned, sessionVars, pureVars>>

\* main_menu.py lines 265-308: the keys of the settings menu that open the
\* edit (1, or ENTER on the first option), go back (B) or exit (Ctrl-C).
\* lines 317-330: the edit starts on the current value.
settings_menu_key(key) ==
    /\ call.pc = "settings_menu"
    /\ exiting' = (exiting \/ key = "CTRL_C")
    /\ call' = IF key = "1"
               THEN [call EXCEPT
                       !.pc = "edit",
                       !.input_str = str(call.settings.challenges_per_session),
                       !.key = key]
               ELSE [call EXCEPT !.pc = "main_menu", !.key = key]
    /\ UNCHANGED <<progressFile, historyFile, played, faults, pinned,
                   session, WM_EXIT, pureVars>>

\* main_menu.py lines 334-387: one key of the edit loop.  digit is the
\* digit of a digit key, w the outcome of the write of save_settings, whose
\* result the edit does not read.
edit_challenges_per_session(key, digit, w) ==
    LET input_str == call.input_str
        stores == key = "ENTER" /\ stores_new_value(input_str)
        new_settings == [call.settings EXCEPT !.challenges_per_session = int(input_str)]
    IN  /\ call.pc = "edit"
        /\ key # "DIGIT" => digit = 0
        /\ ~stores => w = "ok"
        /\ faults + Failed(w) <= MaxFaults
        /\ faults' = faults + Failed(w)
        /\ exiting' = (exiting \/ key = "CTRL_C")
        /\ progressFile' =
              IF stores
              THEN [progressFile EXCEPT !["settings"] =
                       save_json_file(@, new_settings, w).file]
              ELSE progressFile
        /\ call' =
              CASE key = "ENTER" ->
                     IF stores
                     THEN [call EXCEPT !.settings = new_settings,
                                       !.pc = "settings_menu", !.key = key]
                     ELSE [call EXCEPT !.key = key]
                [] key = "ESC" -> [call EXCEPT !.pc = "settings_menu", !.key = key]
                [] key = "CTRL_C" -> [call EXCEPT !.pc = "main_menu", !.key = key]
                [] key = "BACKSPACE" ->
                     [call EXCEPT
                        !.input_str = IF input_str # <<>>
                                      THEN SubSeq(input_str, 1, Len(input_str) - 1)
                                      ELSE input_str,
                        !.key = key]
                [] key = "DIGIT" ->
                     [call EXCEPT
                        !.input_str = IF Len(input_str) < MaxInputLength
                                      THEN Append(input_str, digit)
                                      ELSE input_str,
                        !.key = key]
        /\ UNCHANGED <<historyFile, played, pinned, session, WM_EXIT, pureVars>>

SettingsMenuKeys == {"1", "B", "CTRL_C"}

EditKeys == {"ENTER", "ESC", "CTRL_C", "BACKSPACE", "DIGIT"}

\* The settings document at the start: none yet, or one with a positive
\* challenges_per_session.
SettingsInit ==
    /\ progressFile \in
          { [g \in {"settings"} |-> file] :
              file \in {AbsentFile} \cup
                       { ValidFile([challenges_per_session |-> n]) :
                           n \in InitialChallengesPerSession } }
    /\ historyFile = [g \in Games |-> AbsentFile]
    /\ call = NoSettings
    /\ played = 0
    /\ faults = 0
    /\ pinned = NoPair
    /\ session = NoSession
    /\ WM_EXIT = FALSE
    /\ exiting = FALSE
    /\ challenge = NoChallenge
    /\ response = NoResponse

SettingsNext ==
    \/ \E w \in WriteOutcomes : settings_menu(w)
    \/ \E key \in SettingsMenuKeys : settings_menu_key(key)
    \/ \E key \in EditKeys, digit \in SettingsDigits, w \in WriteOutcomes :
          edit_challenges_per_session(key, digit, w)

SettingsSpec == SettingsInit /\ [][SettingsNext]_vars

\* The number a string of at most three decimal digits writes.
DecimalValue(s) ==
    CASE Len(s) = 0 -> 0
      [] Len(s) = 1 -> s[1]
      [] Len(s) = 2 -> 10 * s[1] + s[2]
      [] Len(s) = 3 -> 100 * s[1] + 10 * s[2] + s[3]

\* C36: from a positive value, challenges_per_session stays a positive
\* integer, in the settings of the menu and in the settings document,
\* through every sequence of edits: a key of the edit changes the setting
\* or the document only if it is ENTER on digits that write a number > 0,
\* which is then the value stored; ENTER on an empty input or on zero,
\* Escape and Ctrl-C leave both as they were.
C36_ChallengesPerSessionPositive ==
    /\ []((call.pc \in {"settings_menu", "edit"}
             => call.settings.challenges_per_session \in Nat \ {0})
          /\ (progressFile["settings"].st = "valid"
                => progressFile["settings"].doc.challenges_per_session \in Nat \ {0}))
    /\ [][(call.pc = "edit"
            /\ (call'.settings # call.settings \/ progressFile' # progressFile))
           => (/\ call'.key = "ENTER"
               /\ call.input_str # <<>>
               /\ DecimalValue(call.input_str) > 0
               /\ call'.settings.challenges_per_session = DecimalValue(call.input_str))]_vars
    /\ [][(call.pc = "edit"
            /\ (\/ call'.key \in {"ESC", "CTRL_C"}
                \/ (call'.key = "ENTER" /\ DecimalValue(call.input_str) = 0)))
           => (call'.settings = call.settings /\ progressFile' = progressFile)]_vars

C36_Witness ==
    /\ call.pc = "settings_menu"
    /\ call.key = "ENTER"
    /\ call.settings.challenges_per_session = 20
    /\ progressFile["settings"] = ValidFile([challenges_per_session |-> 20])
====
